---- MODULE Spec2Model ----
(***************************************************************************)
(* State-machine model of the collision-detection pre-pass of cascade:     *)
(*   - sim::construct_bvh_trees_parallel  (src/src/sim_bvh.cpp)            *)
(*   - sim::morton_encode_sort, sim::propagate_for                         *)
(*                                         (src/src/sim_propagate.cpp)     *)
(*                                                                         *)
(* Conventions.                                                            *)
(*   - C++ arrays are functions over 0..n-1, so indices are the source's. *)
(*   - A 64-bit Morton code is a tuple <<w0, w1, w2, w3>> of four 16-bit   *)
(*     words, w0 the most significant: TLC's integers are 32 bits wide.    *)
(*   - A float is an integer; +infinity is finf, -infinity is -finf.       *)
(***************************************************************************)
EXTENDS Integers, Sequences, FiniteSets, TLC

VARIABLES
    \* ---- a call of one of the helper functions (sim_propagate.cpp) ----
    fn_call,        \* the function called, its arguments and, once returned, its result
    \* ---- the parallel region of propagate_for (sim_propagate.cpp) ----
    upd,            \* per worker: position and locals of its lb_updater/ub_updater calls
    int_error,      \* std::atomic<bool> int_error
    b_ta_cache,     \* m_data->b_ta_cache: the queue of idle batch integrators
    task,           \* per invocation of batch_int_aabb: its range, position and locals
    chunk_pc,       \* per chunk: position of the chunk's iteration in the sort and the BVH build
    \* ---- AABBs of the particles of one batch (sim_propagate.cpp) ----
    s_data,         \* m_data->s_data: substep end times and Taylor coefficients
    chunk_idx,      \* chunk of the AABB loop
    lane_idx,       \* batch index i of the AABB loop
    \* ---- Morton encoding and sorting of one chunk (sim_propagate.cpp) ----
    lbs,            \* x/y/z/r_lb: lower bounds of the particles' AABBs
    ubs,            \* x/y/z/r_ub: upper bounds of the particles' AABBs
    global_lb_atomic,   \* m_data->global_lb_atomic[chunk_idx]
    global_ub_atomic,   \* m_data->global_ub_atomic[chunk_idx]
    global_lb,      \* m_data->global_lb[chunk_idx]
    global_ub,      \* m_data->global_ub[chunk_idx]
    mcodes,         \* Morton codes of the particles
    vidx,           \* indices vector for the indirect sorting
    cast_inf,       \* what the build's float -> uint64 conversion makes of +inf
    \* ---- BVH construction of one chunk (sim_bvh.cpp) ----
    nparts,         \* get_nparts()
    srt_mcodes,     \* sorted Morton codes of the chunk
    srt_lbs,        \* sorted lower bounds of the particles' AABBs
    srt_ubs,        \* sorted upper bounds of the particles' AABBs
    tree,           \* m_data->bvh_trees[chunk_idx]
    nc_buf,         \* m_data->nc_buffer[chunk_idx]
    ps_buf,         \* m_data->ps_buffer[chunk_idx]
    nplc_buf,       \* m_data->nplc_buffer[chunk_idx]
    cur_n_nodes,    \* number of nodes at the current tree level
    nn_next_level,  \* number of nodes at the next level
    n_leaf_nodes,   \* accumulator of the parallel_reduce of step 1
    n_begin,        \* node index range of the current level
    n_end,
    done,           \* indices already processed by the running parallel region
    pc              \* position of the thread in the function it runs

bvhVars == <<nparts, srt_mcodes, srt_lbs, srt_ubs, tree, nc_buf, ps_buf, nplc_buf,
             cur_n_nodes, nn_next_level, n_leaf_nodes, n_begin, n_end, done, pc>>

sortVars == <<lbs, ubs, global_lb_atomic, global_ub_atomic, global_lb, global_ub,
              mcodes, vidx, cast_inf>>

\* The variables that only the BVH construction uses.
bvhOnlyVars == <<tree, nc_buf, ps_buf, nplc_buf, cur_n_nodes, nn_next_level,
                 n_leaf_nodes, n_begin, n_end>>

aabbVars == <<s_data, chunk_idx, lane_idx>>

\* The variables that only the parallel region of propagate_for uses.
propVars == <<upd, int_error, b_ta_cache, task, chunk_pc>>

vars == <<fn_call, propVars, aabbVars, sortVars, bvhVars>>

-----------------------------------------------------------------------------
(* Bounds of the model.                                                    *)

\* Largest number of particles of a chunk.
MaxParts == 3

\* Number of chunks of the superstep in the model of the AABB loop (the
\* source fixes 8).
NChunks == 2

\* const auto chunk_size = delta_t / nchunks, in the model's time unit.
chunk_size == 2

\* Largest number of substeps an integration records for a particle.
MaxSubsteps == 3

\* Batch size of the integrator.
BatchSize == 2

\* Taylor order of the integrator.
order == 2

-----------------------------------------------------------------------------
(* Scalars.                                                                *)

\* std::numeric_limits<float>::infinity()
finf == 1000000

\* std::min(a, b): b if b < a, else a.
Min(a, b) == IF b < a THEN b ELSE a

\* std::max(a, b): b if a < b, else a.
Max(a, b) == IF a < b THEN b ELSE a

default_lb == <<finf, finf, finf, finf>>
default_ub == <<-finf, -finf, -finf, -finf>>

\* Number of elements of an array.
Size(a) == Cardinality(DOMAIN a)

\* std::vector::resize(n): the first elements are kept, new ones get v.
Resize(a, n, v) == [i \in 0..(n - 1) |-> IF i \in DOMAIN a THEN a[i] ELSE v]

\* 2^k for the bit positions of a 16-bit word.
Pow2(k) == CASE k = 0 -> 1 [] k = 1 -> 2 [] k = 2 -> 4 [] k = 3 -> 8
             [] k = 4 -> 16 [] k = 5 -> 32 [] k = 6 -> 64 [] k = 7 -> 128
             [] k = 8 -> 256 [] k = 9 -> 512 [] k = 10 -> 1024 [] k = 11 -> 2048
             [] k = 12 -> 4096 [] k = 13 -> 8192 [] k = 14 -> 16384 [] k = 15 -> 32768
             [] k = 16 -> 65536

\* The bit of a 64-bit code at index s counted from the MSB (s in 0..63):
\* (mcode & (1 << (63 - s))) != 0.
Bit(mcode, s) == (mcode[(s \div 16) + 1] \div Pow2(15 - (s % 16))) % 2

\* mcode1 < mcode2 on 64-bit unsigned integers.
CodeLess(a, b) ==
    \E k \in 1..4 : a[k] < b[k] /\ \A j \in 1..(k - 1) : a[j] = b[j]

-----------------------------------------------------------------------------
(* BVH construction: helpers.                                              *)

\* A node added by tree.resize(): its fields hold no meaningful value
\* until step 4 sets them up.
IndetNode ==
    [begin |-> -7, end |-> -7, parent |-> -7, left |-> -7, right |-> -7,
     lb |-> <<-7, -7, -7, -7>>, ub |-> <<-7, -7, -7, -7>>,
     nn_level |-> -7, split_idx |-> -7]

\* Mutant of RootNode: the search of the root starts after the MSB.
RootNodeSkipMsb ==
    [begin |-> 0, end |-> nparts, parent |-> -1, left |-> -1, right |-> -1,
     lb |-> default_lb, ub |-> default_ub, nn_level |-> 0, split_idx |-> 1]

\* The root node inserted before the first level.
RootNode ==
    [begin |-> 0, end |-> nparts, parent |-> -1, left |-> -1, right |-> -1,
     lb |-> default_lb, ub |-> default_ub, nn_level |-> 0, split_idx |-> 0]

\* Mutant of MaskLess: the mask selects the bit after split_idx.
MaskLessNextBit(mcode, s) == Bit(mcode, IF s < 63 THEN s + 1 ELSE s) < 1

\* The comparator handed to std::lower_bound: (mcode & mask) < 1u,
\* mask = 1 << (63 - split_idx).
MaskLess(mcode, s) == Bit(mcode, s) < 1

\* std::lower_bound(first, first + len, 1u, comp) over srt_mcodes: the
\* binary search of the standard library, on positions of the chunk.
RECURSIVE LowerBound(_, _, _)
LowerBound(first, len, s) ==
    IF len <= 0 THEN first
    ELSE LET half == len \div 2
             mid == first + half
         IN IF MaskLess(srt_mcodes[mid], s)
            THEN LowerBound(mid + 1, len - half - 1, s)
            ELSE LowerBound(first, half, s)

\* Mutant of FindSplit: the loop tests split_ptr == mcodes_begin only.
RECURSIVE FindSplitNoEndCheck(_, _, _)
FindSplitNoEndCheck(b, e, s) ==
    LET split_ptr == LowerBound(b, e - b, s)
    IN IF split_ptr = b
       THEN IF s = 63
            THEN [is_leaf_node |-> TRUE, split_idx |-> s, split_ptr |-> split_ptr]
            ELSE FindSplitNoEndCheck(b, e, s + 1)
       ELSE [is_leaf_node |-> FALSE, split_idx |-> s, split_ptr |-> split_ptr]

\* Mutant of FindSplit: split_idx is bumped before the first search.
RECURSIVE FindSplitSkipFirst(_, _, _)
FindSplitSkipFirst(b, e, s) ==
    LET t == IF s < 63 THEN s + 1 ELSE s
        split_ptr == LowerBound(b, e - b, t)
    IN IF split_ptr = b \/ split_ptr = e
       THEN IF t = 63
            THEN [is_leaf_node |-> TRUE, split_idx |-> t, split_ptr |-> split_ptr]
            ELSE FindSplitSkipFirst(b, e, t)
       ELSE [is_leaf_node |-> FALSE, split_idx |-> t, split_ptr |-> split_ptr]

\* Mutant of FindSplit: giving up at bit 63 leaves split_idx at 64.
RECURSIVE FindSplitBumpLast(_, _, _)
FindSplitBumpLast(b, e, s) ==
    LET split_ptr == LowerBound(b, e - b, s)
    IN IF split_ptr = b \/ split_ptr = e
       THEN IF s = 63
            THEN [is_leaf_node |-> TRUE, split_idx |-> s + 1, split_ptr |-> split_ptr]
            ELSE FindSplitBumpLast(b, e, s + 1)
       ELSE [is_leaf_node |-> FALSE, split_idx |-> s, split_ptr |-> split_ptr]

\* The search loop of step 1 for a node with more than one particle:
\* bump split_idx until a bit flip is found strictly inside the range,
\* or give up at bit 63.
RECURSIVE FindSplit(_, _, _)
FindSplit(b, e, s) ==
    LET split_ptr == LowerBound(b, e - b, s)
    IN IF split_ptr = b \/ split_ptr = e
       THEN IF s = 63
            THEN [is_leaf_node |-> TRUE, split_idx |-> s, split_ptr |-> split_ptr]
            ELSE FindSplit(b, e, s + 1)
       ELSE [is_leaf_node |-> FALSE, split_idx |-> s, split_ptr |-> split_ptr]

\* Mutant of ClassifyNode: the last bit index is never searched.
ClassifyNodeOffByOne(node) ==
    IF node.end - node.begin > 1 /\ node.split_idx <= 62
    THEN FindSplit(node.begin, node.end, node.split_idx)
    ELSE [is_leaf_node |-> TRUE, split_idx |-> node.split_idx, split_ptr |-> -1]

\* Mutant of ClassifyNode: nodes of two particles are not searched.
ClassifyNodeSizeTwo(node) ==
    IF node.end - node.begin > 2 /\ node.split_idx <= 63
    THEN FindSplit(node.begin, node.end, node.split_idx)
    ELSE [is_leaf_node |-> TRUE, split_idx |-> node.split_idx, split_ptr |-> -1]

\* Step 1 for one node: leaf or not, the final split_idx, the split position.
ClassifyNode(node) ==
    IF node.end - node.begin > 1 /\ node.split_idx <= 63
    THEN FindSplit(node.begin, node.end, node.split_idx)
    ELSE [is_leaf_node |-> TRUE, split_idx |-> node.split_idx, split_ptr |-> -1]

\* Mutant of LeafLb: the box is taken from the shared counter of leaf nodes.
LeafLbShared(acc, pidx, end) == [i \in 1..4 |-> n_leaf_nodes]

\* The AABB loop of a leaf: min/max over the particles pidx..end-1.
RECURSIVE LeafLb(_, _, _)
LeafLb(acc, pidx, end) ==
    IF pidx >= end THEN acc
    ELSE LeafLb([i \in 1..4 |-> Min(acc[i], srt_lbs[pidx][i])], pidx + 1, end)

RECURSIVE LeafUb(_, _, _)
LeafUb(acc, pidx, end) ==
    IF pidx >= end THEN acc
    ELSE LeafUb([i \in 1..4 |-> Max(acc[i], srt_ubs[pidx][i])], pidx + 1, end)

\* Mutant of PrefixSum: the exclusive prefix sum.
RECURSIVE PrefixSumExclusive(_, _)
PrefixSumExclusive(buf, i) ==
    IF i <= 0 THEN 0 ELSE PrefixSumExclusive(buf, i - 1) + buf[i - 1]

\* Step 3: the inclusive prefix sum of nc_buf at position i.
RECURSIVE PrefixSum(_, _)
PrefixSum(buf, i) == IF i < 0 THEN 0 ELSE PrefixSum(buf, i - 1) + buf[i]

\* Step 4: index of the left child of an internal node.
LcIdx(cur_tree_size, ps) == cur_tree_size + ps - 2

\* Mutant of NnLevel: the size of the next level is stored.
NnLevelNext(n_cur, n_next) == n_next

\* Step 4: nn_level of a node of the current level.
NnLevel(n_cur, n_next) == n_cur

\* Mutant of ChildSplitIdx: the children start at the parent's bit index.
ChildSplitIdxOfParent(s) == s

\* Mutant of ChildSplitIdx: the children skip one bit index.
ChildSplitIdxPlus2(s) == s + 2

\* Step 4: split_idx of the children of a node.
ChildSplitIdx(s) == s + 1

\* Mutant of LeftChild: the left child takes the whole range of cur_node.
LeftChildWholeRange(cur_node, node_idx, lsize) ==
    [begin |-> cur_node.begin, end |-> cur_node.end,
     parent |-> node_idx, left |-> -1, right |-> -1,
     lb |-> default_lb, ub |-> default_ub, nn_level |-> 0,
     split_idx |-> ChildSplitIdx(cur_node.split_idx)]

\* Mutant of LeftChild: the parent index is left at the root's value.
LeftChildNoParent(cur_node, node_idx, lsize) ==
    [begin |-> cur_node.begin, end |-> cur_node.begin + lsize,
     parent |-> -1, left |-> -1, right |-> -1,
     lb |-> default_lb, ub |-> default_ub, nn_level |-> 0,
     split_idx |-> ChildSplitIdx(cur_node.split_idx)]

\* Step 4: the left child of cur_node, stored at node_idx.
LeftChild(cur_node, node_idx, lsize) ==
    [begin |-> cur_node.begin, end |-> cur_node.begin + lsize,
     parent |-> node_idx, left |-> -1, right |-> -1,
     lb |-> default_lb, ub |-> default_ub, nn_level |-> 0,
     split_idx |-> ChildSplitIdx(cur_node.split_idx)]

\* Mutant of RightChild: the range begins where the left child's does.
RightChildBeginAtParent(cur_node, node_idx, lsize) ==
    [begin |-> cur_node.begin, end |-> cur_node.end,
     parent |-> node_idx, left |-> -1, right |-> -1,
     lb |-> default_lb, ub |-> default_ub, nn_level |-> 0,
     split_idx |-> ChildSplitIdx(cur_node.split_idx)]

\* Step 4: the right child of cur_node, stored at node_idx.
RightChild(cur_node, node_idx, lsize) ==
    [begin |-> cur_node.begin + lsize, end |-> cur_node.end,
     parent |-> node_idx, left |-> -1, right |-> -1,
     lb |-> default_lb, ub |-> default_ub, nn_level |-> 0,
     split_idx |-> ChildSplitIdx(cur_node.split_idx)]

\* Mutant of PullUpLb: the right child is ignored.
PullUpLbLeftOnly(lc, rc) == lc.lb

\* Backward pass: the box of an internal node from its children lc, rc.
PullUpLb(lc, rc) == [j \in 1..4 |-> Min(lc.lb[j], rc.lb[j])]
PullUpUb(lc, rc) == [j \in 1..4 |-> Max(lc.ub[j], rc.ub[j])]

-----------------------------------------------------------------------------
(* BVH construction: inputs.                                               *)

\* Morton codes the chunks of the model are built from: they differ at the
\* MSB, in the middle, at bit 62 and at bit 63 (the LSB).
CodeSet ==
    { <<0, 0, 0, 0>>, <<0, 0, 0, 1>>, <<0, 0, 0, 2>>, <<0, 0, 0, 3>>,
      <<0, 1, 0, 0>>, <<32768, 0, 0, 0>>, <<65535, 65535, 65535, 65535>> }

\* Finite AABBs with lb <= ub the particles of the model have.
BoxLbs == << <<0, -5, 0, 2>>, <<-3, 2, 0, 5>> >>
BoxUbs == << <<1, -2, 1, 3>>, <<-1, 2, 4, 9>> >>

\* The Morton codes of a chunk are sorted by morton_encode_sort.
IsSortedCodes(mc, n) == \A i \in 0..(n - 2) : ~CodeLess(mc[i + 1], mc[i])

\* The ways the boxes are given to the particles of a chunk: all the same
\* box, or the boxes in turn.
BoxChoices(n) ==
    {[p \in 0..(n - 1) |-> IF turns THEN ((p + first) % Len(BoxLbs)) + 1 ELSE first] :
        turns \in BOOLEAN, first \in 1..Len(BoxLbs)}

BvhInit ==
    /\ nparts \in 1..(MaxParts + 1)
    /\ srt_mcodes \in {mc \in [0..(nparts - 1) -> CodeSet] : IsSortedCodes(mc, nparts)}
    /\ \E bx \in BoxChoices(nparts) :
          /\ srt_lbs = [p \in 0..(nparts - 1) |-> BoxLbs[bx[p]]]
          /\ srt_ubs = [p \in 0..(nparts - 1) |-> BoxUbs[bx[p]]]
    /\ tree = <<>>
    /\ nc_buf = <<>>
    /\ ps_buf = <<>>
    /\ nplc_buf = <<>>
    /\ cur_n_nodes = 0
    /\ nn_next_level = 0
    /\ n_leaf_nodes = 0
    /\ n_begin = 0
    /\ n_end = 0
    /\ done = {}
    /\ pc = "start"

-----------------------------------------------------------------------------
(* BVH construction: the steps of one chunk.                               *)

\* Nodes of the running parallel region that are still to be processed.
Pending == (n_begin..(n_end - 1)) \ done

\* tree.clear(), the buffers' clear(), and the insertion of the root node.
InsertRoot ==
    /\ pc = "start"
    /\ tree' = [i \in {0} |-> RootNode]
    /\ nc_buf' = <<>>
    /\ ps_buf' = <<>>
    /\ nplc_buf' = <<>>
    /\ cur_n_nodes' = 1
    /\ pc' = "level"
    /\ UNCHANGED <<fn_call, propVars, aabbVars, sortVars, nparts, srt_mcodes, srt_lbs, srt_ubs, nn_next_level,
                   n_leaf_nodes, n_begin, n_end, done>>

\* Head of the while loop: the level's node range and the temp buffers.
LevelBegin ==
    /\ pc = "level"
    /\ cur_n_nodes # 0
    /\ n_begin' = Size(tree) - cur_n_nodes
    /\ n_end' = Size(tree)
    /\ nn_next_level' = cur_n_nodes * 2
    /\ nc_buf' = Resize(nc_buf, cur_n_nodes, 0)
    /\ ps_buf' = Resize(ps_buf, cur_n_nodes, 0)
    /\ nplc_buf' = Resize(nplc_buf, cur_n_nodes, 0)
    /\ n_leaf_nodes' = 0
    /\ done' = {}
    /\ pc' = "step1"
    /\ UNCHANGED <<fn_call, propVars, aabbVars, sortVars, nparts, srt_mcodes, srt_lbs, srt_ubs, tree, cur_n_nodes>>

\* Step 1, one node of the parallel_reduce.
Step1Node(node_idx) ==
    /\ pc = "step1"
    /\ node_idx \in Pending
    /\ LET cur_node == tree[node_idx]
           r == ClassifyNode(cur_node)
           i == node_idx - n_begin
       IN IF r.is_leaf_node
          THEN /\ tree' = [tree EXCEPT ![node_idx] =
                              [cur_node EXCEPT
                                  !.split_idx = r.split_idx,
                                  !.lb = LeafLb(cur_node.lb, cur_node.begin, cur_node.end),
                                  !.ub = LeafUb(cur_node.ub, cur_node.begin, cur_node.end)]]
               /\ nc_buf' = [nc_buf EXCEPT ![i] = 0]
               /\ nplc_buf' = [nplc_buf EXCEPT ![i] = 0]
               /\ n_leaf_nodes' = n_leaf_nodes + 1
          ELSE /\ tree' = [tree EXCEPT ![node_idx].split_idx = r.split_idx]
               /\ nc_buf' = [nc_buf EXCEPT ![i] = 2]
               /\ nplc_buf' = [nplc_buf EXCEPT ![i] = r.split_ptr - cur_node.begin]
               /\ n_leaf_nodes' = n_leaf_nodes
    /\ done' = done \cup {node_idx}
    /\ UNCHANGED <<fn_call, propVars, aabbVars, sortVars, nparts, srt_mcodes, srt_lbs, srt_ubs, ps_buf, cur_n_nodes,
                   nn_next_level, n_begin, n_end, pc>>

\* Join of step 1 and step 2: the next level's size, and the new nodes.
Step2Reserve ==
    /\ pc = "step1"
    /\ Pending = {}
    /\ nn_next_level' = nn_next_level - n_leaf_nodes * 2
    /\ tree' = Resize(tree, Size(tree) + nn_next_level', IndetNode)
    /\ pc' = "step3"
    /\ UNCHANGED <<fn_call, propVars, aabbVars, sortVars, nparts, srt_mcodes, srt_lbs, srt_ubs, nc_buf, ps_buf, nplc_buf,
                   cur_n_nodes, n_leaf_nodes, n_begin, n_end, done>>

\* Step 3: the parallel_scan of nc_buf into ps_buf.
Step3Scan ==
    /\ pc = "step3"
    /\ ps_buf' = [i \in DOMAIN nc_buf |-> PrefixSum(nc_buf, i)]
    /\ done' = {}
    /\ pc' = "step4"
    /\ UNCHANGED <<fn_call, propVars, aabbVars, sortVars, nparts, srt_mcodes, srt_lbs, srt_ubs, tree, nc_buf, nplc_buf,
                   cur_n_nodes, nn_next_level, n_leaf_nodes, n_begin, n_end>>

\* Step 4, one node of the parallel_for: nn_level, the children pointers
\* and the initial setup of the children.
Step4Node(node_idx) ==
    /\ pc = "step4"
    /\ node_idx \in Pending
    /\ LET cur_node == tree[node_idx]
           i == node_idx - n_begin
           nc == nc_buf[i]
           lsize == nplc_buf[i]
           lc_idx == LcIdx(n_end, ps_buf[i])
           fin == [cur_node EXCEPT !.nn_level = NnLevel(cur_n_nodes, nn_next_level)]
       IN IF nc = 0
          THEN tree' = [tree EXCEPT ![node_idx] = fin]
          ELSE tree' = [k \in DOMAIN tree \cup {lc_idx, lc_idx + 1} |->
                          IF k = lc_idx + 1 THEN RightChild(cur_node, node_idx, lsize)
                          ELSE IF k = lc_idx THEN LeftChild(cur_node, node_idx, lsize)
                          ELSE IF k = node_idx
                               THEN [fin EXCEPT !.left = lc_idx, !.right = lc_idx + 1]
                          ELSE tree[k]]
    /\ done' = done \cup {node_idx}
    /\ UNCHANGED <<fn_call, propVars, aabbVars, sortVars, nparts, srt_mcodes, srt_lbs, srt_ubs, nc_buf, ps_buf, nplc_buf,
                   cur_n_nodes, nn_next_level, n_leaf_nodes, n_begin, n_end, pc>>

\* Step 5: the next value of cur_n_nodes.
Step5Advance ==
    /\ pc = "step4"
    /\ Pending = {}
    /\ cur_n_nodes' = nn_next_level
    /\ pc' = "level"
    /\ UNCHANGED <<fn_call, propVars, aabbVars, sortVars, nparts, srt_mcodes, srt_lbs, srt_ubs, tree, nc_buf, ps_buf,
                   nplc_buf, nn_next_level, n_leaf_nodes, n_begin, n_end, done>>

\* End of the while loop: the range of the last level and, unless the tree
\* is the root alone, the range of the penultimate level.
BwdInit ==
    /\ pc = "level"
    /\ cur_n_nodes = 0
    /\ LET last_begin == Size(tree) - tree[Size(tree) - 1].nn_level
       IN IF last_begin = 0
          THEN /\ n_begin' = 0
               /\ n_end' = Size(tree)
               /\ pc' = "done"
          ELSE /\ n_begin' = last_begin - tree[last_begin - 1].nn_level
               /\ n_end' = last_begin
               /\ pc' = "bwd"
    /\ done' = {}
    /\ UNCHANGED <<fn_call, propVars, aabbVars, sortVars, nparts, srt_mcodes, srt_lbs, srt_ubs, tree, nc_buf, ps_buf,
                   nplc_buf, cur_n_nodes, nn_next_level, n_leaf_nodes>>

\* Backward pass, one node of the parallel_for of a level.
BwdNode(node_idx) ==
    /\ pc = "bwd"
    /\ node_idx \in Pending
    /\ LET cur_node == tree[node_idx]
       IN IF cur_node.left = -1
          THEN tree' = tree
          ELSE tree' = [tree EXCEPT ![node_idx] =
                           [cur_node EXCEPT
                               !.lb = PullUpLb(tree[cur_node.left], tree[cur_node.right]),
                               !.ub = PullUpUb(tree[cur_node.left], tree[cur_node.right])]]
    /\ done' = done \cup {node_idx}
    /\ UNCHANGED <<fn_call, propVars, aabbVars, sortVars, nparts, srt_mcodes, srt_lbs, srt_ubs, nc_buf, ps_buf, nplc_buf,
                   cur_n_nodes, nn_next_level, n_leaf_nodes, n_begin, n_end, pc>>

\* Mutant of BwdNextLevel: the level is sized with the nn_level of its own
\* first node.
BwdNextLevelOwnSize ==
    /\ pc = "bwd"
    /\ Pending = {}
    /\ IF n_begin = 0
       THEN /\ pc' = "done"
            /\ UNCHANGED <<n_begin, n_end>>
       ELSE /\ n_begin' = n_begin - tree[n_begin].nn_level
            /\ n_end' = n_begin
            /\ pc' = "bwd"
    /\ done' = {}
    /\ UNCHANGED <<fn_call, propVars, aabbVars, sortVars, nparts, srt_mcodes, srt_lbs, srt_ubs, tree, nc_buf, ps_buf,
                   nplc_buf, cur_n_nodes, nn_next_level, n_leaf_nodes>>

\* Backward pass: the level is finished; stop at the root or move up.
BwdNextLevel ==
    /\ pc = "bwd"
    /\ Pending = {}
    /\ IF n_begin = 0
       THEN /\ pc' = "done"
            /\ UNCHANGED <<n_begin, n_end>>
       ELSE /\ n_begin' = n_begin - tree[n_begin - 1].nn_level
            /\ n_end' = n_begin
            /\ pc' = "bwd"
    /\ done' = {}
    /\ UNCHANGED <<fn_call, propVars, aabbVars, sortVars, nparts, srt_mcodes, srt_lbs, srt_ubs, tree, nc_buf, ps_buf,
                   nplc_buf, cur_n_nodes, nn_next_level, n_leaf_nodes>>

BvhNext ==
    \/ InsertRoot
    \/ LevelBegin
    \/ \E node_idx \in DOMAIN tree : Step1Node(node_idx)
    \/ Step2Reserve
    \/ Step3Scan
    \/ \E node_idx \in DOMAIN tree : Step4Node(node_idx)
    \/ Step5Advance
    \/ BwdInit
    \/ \E node_idx \in DOMAIN tree : BwdNode(node_idx)
    \/ BwdNextLevel

\* The state of the encoding and sorting plays no part in the construction.
SortIdle ==
    /\ lbs = <<>>
    /\ ubs = <<>>
    /\ global_lb_atomic = default_lb
    /\ global_ub_atomic = default_ub
    /\ global_lb = default_lb
    /\ global_ub = default_ub
    /\ mcodes = <<>>
    /\ vidx = <<>>
    /\ cast_inf = 0

\* No invocation of batch_int_aabb is running and no helper function is
\* called on its own.
RegionIdle ==
    /\ fn_call = <<>>
    /\ int_error = FALSE
    /\ b_ta_cache = <<>>
    /\ task = <<>>
    /\ chunk_pc = <<>>

\* The state of the AABB loop and of the parallel region of propagate_for
\* plays no part in the construction.
AabbIdle ==
    /\ upd = <<>>
    /\ RegionIdle
    /\ s_data = <<>>
    /\ chunk_idx = 0
    /\ lane_idx = 0

InitBvh == BvhInit /\ SortIdle /\ AabbIdle

NextBvh == BvhNext

SpecBvh == InitBvh /\ [][NextBvh]_vars

\* The thread that runs the construction of the chunk and the workers of
\* its parallel regions go on as long as there is a step to take: steps are
\* taken again and again unless the construction is done. (A step is
\* possible in every state but those with pc = "done", so that this is weak
\* fairness of NextBvh.)
SpecBvhFair == SpecBvh /\ ([]<><<NextBvh>>_vars \/ <>[](pc = "done"))

-----------------------------------------------------------------------------
(* BVH construction: the completed tree.                                   *)

\* construct_bvh_trees_parallel has finished the chunk.
Completed == pc = "done"

\* The level loop has ended: only the lb/ub of internal nodes may still change.
TreeBuilt == (pc = "level" /\ cur_n_nodes = 0) \/ pc \in {"bwd", "done"}

IsLeaf(n) == tree[n].left = -1 /\ tree[n].right = -1

Leaves == {n \in DOMAIN tree : IsLeaf(n)}

Internals == DOMAIN tree \ Leaves

\* Particles of the range of node n.
Range(n) == tree[n].begin..(tree[n].end - 1)

\* Least and greatest element of a non-empty set of numbers.
SetMin(S) == CHOOSE x \in S : \A y \in S : x <= y
SetMax(S) == CHOOSE x \in S : \A y \in S : y <= x

\* detail::first_diff_bit: index of the first different bit of n1 and n2
\* from the MSB, the number of digits if there is none.
first_diff_bit(n1, n2) ==
    IF n1 = n2 THEN 64
    ELSE SetMin({s \in 0..63 : Bit(n1, s) # Bit(n2, s)})

\* Number of parent links between node n and the root.
RECURSIVE Depth(_)
Depth(n) == IF tree[n].parent < 0 THEN 0 ELSE 1 + Depth(tree[n].parent)

\* C2: once the chunk's tree is complete, the leaves' ranges lie in 0..P-1
\* and every sorted particle index is in the range of exactly one leaf.
C2_LeavesPartition ==
    Completed =>
        /\ \A n \in Leaves : 0 <= tree[n].begin /\ tree[n].end <= nparts
        /\ \A p \in 0..(nparts - 1) :
              Cardinality({n \in Leaves : p \in Range(n)}) = 1

C2_Witness ==
    /\ Completed
    /\ Cardinality(Leaves) >= 2
    /\ \E n \in Leaves : tree[n].end - tree[n].begin >= 2

\* C3: in a completed tree every node has lb <= ub, its lb/ub are the
\* coordinate-wise min/max of the sorted input AABBs over its range, and an
\* internal node's lb/ub are the min/max of its children's stored boxes.
C3_NodeBoxes ==
    Completed =>
        \A n \in DOMAIN tree : \A k \in 1..4 :
            /\ tree[n].lb[k] <= tree[n].ub[k]
            /\ Range(n) # {}
            /\ tree[n].lb[k] = SetMin({srt_lbs[p][k] : p \in Range(n)})
            /\ tree[n].ub[k] = SetMax({srt_ubs[p][k] : p \in Range(n)})
            /\ n \in Internals =>
                  /\ tree[n].lb[k] = SetMin({tree[tree[n].left].lb[k],
                                             tree[tree[n].right].lb[k]})
                  /\ tree[n].ub[k] = SetMax({tree[tree[n].left].ub[k],
                                             tree[tree[n].right].ub[k]})

C3_Witness ==
    /\ Completed
    /\ \E n \in Internals :
          /\ tree[n].lb \notin {tree[tree[n].left].lb, tree[tree[n].right].lb}
          /\ tree[n].ub \notin {tree[tree[n].left].ub, tree[tree[n].right].ub}
          /\ tree[n].parent >= 0

\* C4: in a completed tree every node has end > begin, and the children of
\* an internal node split its range into two non-empty contiguous parts.
C4_RangesSplit ==
    Completed =>
        /\ \A n \in DOMAIN tree : tree[n].end > tree[n].begin
        /\ \A n \in Internals :
              /\ tree[tree[n].left].begin = tree[n].begin
              /\ tree[tree[n].right].end = tree[n].end
              /\ tree[tree[n].left].end = tree[tree[n].right].begin
              /\ tree[tree[n].left].end < tree[n].end

C4_Witness ==
    /\ Completed
    /\ \E n \in Internals :
          /\ tree[n].end - tree[n].begin = 3
          /\ tree[tree[n].left].end - tree[n].begin = 2

\* C5: the split_idx of an internal node of a completed tree is the index,
\* from the MSB, of the first bit in which the sorted codes at positions
\* left.end - 1 and left.end differ.
C5_SplitIdxIsFirstDiffBit ==
    Completed =>
        \A n \in Internals :
            LET pos == tree[tree[n].left].end
            IN tree[n].split_idx = first_diff_bit(srt_mcodes[pos - 1], srt_mcodes[pos])

C5_Witness ==
    /\ Completed
    /\ \E n, m \in Internals :
          /\ tree[n].split_idx = 63
          /\ tree[m].split_idx \in 1..62
          /\ tree[n].parent = m

\* C6: in a completed tree the particles of a leaf with more than one
\* particle all have the same sorted Morton code.
C6_MultiLeafSameCode ==
    Completed =>
        \A n \in Leaves :
            tree[n].end - tree[n].begin > 1 =>
                \A p \in Range(n) : srt_mcodes[p] = srt_mcodes[tree[n].begin]

C6_Witness ==
    /\ Completed
    /\ \E n \in Leaves : tree[n].end - tree[n].begin > 1 /\ tree[n].parent >= 0

\* C7: in a completed tree node 0 is the only node with parent = -1, every
\* other node's parent is >= 0 and below the node's own index, and a node
\* has either no children (left = right = -1) or two children whose indices
\* are > 0, above the node's own index and inside the tree.
C7_ParentChildIndices ==
    Completed =>
        /\ tree[0].parent = -1
        /\ \A n \in DOMAIN tree \ {0} : tree[n].parent >= 0 /\ tree[n].parent < n
        /\ \A n \in DOMAIN tree :
              \/ IsLeaf(n)
              \/ /\ tree[n].left > 0 /\ tree[n].right > 0
                 /\ tree[n].left > n /\ tree[n].right > n
                 /\ tree[n].left < Size(tree) /\ tree[n].right < Size(tree)

C7_Witness ==
    /\ Completed
    /\ Size(tree) >= 5
    /\ \E n \in Internals : n > 0

\* C8: in a completed tree split_idx <= 63 for every internal node and
\* split_idx <= 64 for every leaf.
C8_SplitIdxRange ==
    Completed =>
        /\ \A n \in Internals : tree[n].split_idx <= 63
        /\ \A n \in Leaves : tree[n].split_idx <= 64

C8_Witness ==
    /\ Completed
    /\ \E n \in Leaves : tree[n].split_idx = 64
    /\ \E n \in Internals : tree[n].split_idx = 63

\* C9: once the tree is built, every node's nn_level is > 0 and is the
\* number of nodes at the node's depth, and the nodes of one depth occupy a
\* contiguous index range of that length.
C9_NnLevel ==
    TreeBuilt =>
        \A n \in DOMAIN tree :
            LET level == {m \in DOMAIN tree : Depth(m) = Depth(n)}
            IN /\ tree[n].nn_level > 0
               /\ tree[n].nn_level = Cardinality(level)
               /\ level = SetMin(level)..(SetMin(level) + tree[n].nn_level - 1)

C9_Witness ==
    /\ Completed
    /\ \E n \in Leaves : \E m \in Internals :
          /\ Depth(n) = 1 /\ Depth(m) = 1
          /\ tree[n].nn_level = 2

-----------------------------------------------------------------------------
(* Morton encoding and sorting: helpers.                                   *)

\* x / 2 on floats (exact); the model's AABB coordinates are even.
Half(x) == x \div 2

\* static_cast<std::uint64_t>(rx) followed by the clamp when rx is
\* +infinity: the cast is undefined and a build converts +inf to some fixed
\* value, of which the clamp leaves a value in [0, 2^16 - 1]; the two
\* extremes stand for the range.
CastInfOutcomes == {0, Pow2(16) - 1}

\* The asserted preconditions of disc_single_coord (finite x is implied by
\* finite AABBs).
DiscPrecondition(x, min, max) ==
    /\ min # finf /\ min # -finf
    /\ max # finf /\ max # -finf
    /\ max > min

\* Mutant of disc_single_coord: the result is not clamped.
disc_single_coord_no_clamp(x, min, max) ==
    LET isize == max - min
        num == x - min
    IN IF min \in {finf, -finf} \/ max \in {finf, -finf}
       THEN {0}
       ELSE IF isize = 0
       THEN IF num > 0 THEN {cast_inf}
            ELSE {0}
       ELSE IF (num >= 0 /\ isize > 0) \/ (num <= 0 /\ isize < 0)
       THEN LET a == IF num < 0 THEN -num ELSE num
                b == IF isize < 0 THEN -isize ELSE isize
            IN {(a * Pow2(16)) \div b}
       ELSE {0}

\* disc_single_coord(x, min, max): the set of values the call can return.
\* rx = (x - min) / isize is kept as the fraction num / isize.
disc_single_coord(x, min, max) ==
    LET isize == max - min
        num == x - min
    IN IF min \in {finf, -finf} \/ max \in {finf, -finf}
       THEN {0}                                 \* rx is NaN or -0: coerced to 0
       ELSE IF isize = 0
       THEN IF num > 0 THEN {cast_inf}          \* rx = +inf
            ELSE {0}                            \* rx = NaN or -inf
       ELSE IF (num >= 0 /\ isize > 0) \/ (num <= 0 /\ isize < 0)
       THEN LET a == IF num < 0 THEN -num ELSE num
                b == IF isize < 0 THEN -isize ELSE isize
                retval == (a * Pow2(16)) \div b
            IN {Min(retval, Pow2(16) - 1)}
       ELSE {0}                                 \* rx < 0

\* The 4 bits of n that start at bit 4 * k.
Nibble(n, k) == (n \div Pow2(4 * k)) % 16

\* 16 bits of a Morton code from one nibble of each input: bit 4 * i + j
\* of the word is bit i of the j-th nibble.
InterleaveNibbles(a) ==
    LET bit(n, i) == (n \div Pow2(i)) % 2
        group(i) == bit(a[1], i) + 2 * bit(a[2], i) + 4 * bit(a[3], i) + 8 * bit(a[4], i)
    IN group(0) + 16 * group(1) + 256 * group(2) + 4096 * group(3)

\* morton_enc.Encode(n0, n1, n2, n3): bit 4 * i + j of the code is bit i of
\* input j.  Word q of the result holds bits 16*(4-q) .. 16*(4-q)+15.
MortonEncode(n0, n1, n2, n3) ==
    [q \in 1..4 |-> InterleaveNibbles(<<Nibble(n0, 4 - q), Nibble(n1, 4 - q),
                                        Nibble(n2, 4 - q), Nibble(n3, 4 - q)>>)]

\* The centre of the AABB of particle pidx.
Centre(pidx) == [k \in 1..4 |-> Half(lbs[pidx][k]) + Half(ubs[pidx][k])]

\* Mutant of SortCmp: the comparison is reversed.
SortCmpGreater(idx1, idx2) == CodeLess(mcodes[idx2], mcodes[idx1])

\* The comparator of the indirect sort.
SortCmp(idx1, idx2) == CodeLess(mcodes[idx1], mcodes[idx2])

\* The arrangements of v[0 .. m-1] that are ordered by comp, built element by
\* element: an ordered arrangement stays ordered when an element is taken
\* out of it, so that it is an ordered arrangement of the others with the
\* element put in at some position.
RECURSIVE OrderedArrangements(_, _)
OrderedArrangements(v, m) ==
    IF m = 0 THEN {<<>>}
    ELSE LET insert(w, pos) ==
                 [i \in 0..(m - 1) |->
                     IF i < pos THEN w[i] ELSE IF i = pos THEN v[m - 1] ELSE w[i - 1]]
         IN {w \in {insert(u, pos) : u \in OrderedArrangements(v, m - 1), pos \in 0..(m - 1)} :
                \A i \in 0..(m - 2) : ~SortCmp(w[i + 1], w[i])}

\* oneapi::tbb::parallel_sort(first, last, comp): the range holds the same
\* elements afterwards, ordered by comp; the sort is not stable, so every
\* such arrangement is a possible outcome.
ParallelSort(v, n) == OrderedArrangements(v, n)

\* Mutant of IsortApply: the source is copied without the indirection.
IsortApplyDirect(src) == [i \in 0..(nparts - 1) |-> src[i]]

\* isort_apply(out, src): out[i] = src[vidx_ptr[i]].
IsortApply(src) == [i \in 0..(nparts - 1) |-> src[vidx[i]]]

\* The worker's reduction of the AABBs of its particles, as the code
\* computes it: local_lb from the lb arrays, local_ub from the lb arrays too.
RECURSIVE LocalLb(_, _, _)
LocalLb(acc, pidx, pidx_end) ==
    IF pidx >= pidx_end THEN acc
    ELSE LocalLb([k \in 1..4 |-> Min(acc[k], lbs[pidx][k])], pidx + 1, pidx_end)

RECURSIVE LocalUb(_, _, _)
LocalUb(acc, pidx, pidx_end) ==
    IF pidx >= pidx_end THEN acc
    ELSE LocalUb([k \in 1..4 |-> Max(acc[k], lbs[pidx][k])], pidx + 1, pidx_end)

\* lb_updater / ub_updater of one worker on an atomic holding cur.
LbUpdater(cur, val) == [k \in 1..4 |-> Min(val[k], cur[k])]
UbUpdater(cur, val) == [k \in 1..4 |-> Max(val[k], cur[k])]

-----------------------------------------------------------------------------
(* Morton encoding and sorting: inputs.                                    *)

\* Finite AABBs with lb <= ub of the particles of the chunk.
SortBoxLbs == << <<0, 0, 0, 0>>, <<8, 0, -8, 4>>, <<4, -4, 0, 0>> >>
SortBoxUbs == << <<8, 8, 8, 8>>, <<16, 8, 0, 12>>, <<4, 4, 16, 8>> >>

\* propagate_for after the resize of the arrays and the integration of all
\* particles by one worker: the AABBs of the chunk are stored, the atomics
\* hold the worker's reduction, the other arrays are value-initialised.
SortInit ==
    /\ nparts \in 1..MaxParts
    /\ \E bx \in [0..(nparts - 1) -> 1..Len(SortBoxLbs)] :
          /\ lbs = [p \in 0..(nparts - 1) |-> SortBoxLbs[bx[p]]]
          /\ ubs = [p \in 0..(nparts - 1) |-> SortBoxUbs[bx[p]]]
    /\ global_lb_atomic = LbUpdater(default_lb, LocalLb(default_lb, 0, nparts))
    /\ global_ub_atomic = UbUpdater(default_ub, LocalUb(default_ub, 0, nparts))
    /\ global_lb = <<0, 0, 0, 0>>
    /\ global_ub = <<0, 0, 0, 0>>
    /\ mcodes = [p \in 0..(nparts - 1) |-> <<0, 0, 0, 0>>]
    /\ vidx = [p \in 0..(nparts - 1) |-> 0]
    /\ cast_inf \in CastInfOutcomes
    /\ srt_lbs = [p \in 0..(nparts - 1) |-> <<0, 0, 0, 0>>]
    /\ srt_ubs = [p \in 0..(nparts - 1) |-> <<0, 0, 0, 0>>]
    /\ srt_mcodes = [p \in 0..(nparts - 1) |-> <<0, 0, 0, 0>>]
    /\ done = {}
    /\ pc = "invoke"

-----------------------------------------------------------------------------
(* Morton encoding and sorting: the steps of one chunk.                    *)

\* Particles of the running parallel_for that are still to be processed.
PendingParts == (0..(nparts - 1)) \ done

\* The value stored in the indices vector at position i.
VidxValue(i) == i

\* propagate_for: one iteration of the initialisation of the indices vector.
VidxInit(i) ==
    /\ pc = "invoke"
    /\ i \in PendingParts
    /\ vidx' = [vidx EXCEPT ![i] = VidxValue(i)]
    /\ done' = done \cup {i}
    /\ UNCHANGED <<fn_call, propVars, aabbVars, bvhOnlyVars, cast_inf, lbs, ubs, global_lb_atomic, global_ub_atomic, global_lb, global_ub,
                   mcodes, nparts, srt_mcodes, srt_lbs, srt_ubs, pc>>

\* propagate_for: parallel_invoke has joined without an integration error;
\* morton_encode_sort loads the atomic global AABB into the plain one.
LoadGlobal ==
    /\ pc = "invoke"
    /\ PendingParts = {}
    /\ global_lb' = global_lb_atomic
    /\ global_ub' = global_ub_atomic
    /\ done' = {}
    /\ pc' = "encode"
    /\ UNCHANGED <<fn_call, propVars, aabbVars, bvhOnlyVars, cast_inf, lbs, ubs, global_lb_atomic, global_ub_atomic, mcodes, vidx,
                   nparts, srt_mcodes, srt_lbs, srt_ubs>>

\* morton_encode_sort: the Morton code of one particle.
EncodeParticle(pidx) ==
    /\ pc = "encode"
    /\ pidx \in PendingParts
    /\ LET ctr == Centre(pidx)
       IN \E n0 \in disc_single_coord(ctr[1], global_lb[1], global_ub[1]),
             n1 \in disc_single_coord(ctr[2], global_lb[2], global_ub[2]),
             n2 \in disc_single_coord(ctr[3], global_lb[3], global_ub[3]),
             n3 \in disc_single_coord(ctr[4], global_lb[4], global_ub[4]) :
             mcodes' = [mcodes EXCEPT ![pidx] = MortonEncode(n0, n1, n2, n3)]
    /\ done' = done \cup {pidx}
    /\ UNCHANGED <<fn_call, propVars, aabbVars, bvhOnlyVars, cast_inf, lbs, ubs, global_lb_atomic, global_ub_atomic, global_lb, global_ub,
                   vidx, nparts, srt_mcodes, srt_lbs, srt_ubs, pc>>

\* morton_encode_sort, build with assertions: an assertion of
\* disc_single_coord fails and the program is aborted.
EncodeAssertFail(pidx) ==
    /\ pc = "encode"
    /\ pidx \in PendingParts
    /\ \E k \in 1..4 : ~DiscPrecondition(Centre(pidx)[k], global_lb[k], global_ub[k])
    /\ pc' = "abort"
    /\ UNCHANGED <<fn_call, propVars, aabbVars, bvhOnlyVars, cast_inf, lbs, ubs, global_lb_atomic, global_ub_atomic, global_lb, global_ub,
                   mcodes, vidx, nparts, srt_mcodes, srt_lbs, srt_ubs, done>>

\* morton_encode_sort: the indirect sorting of the indices by Morton code.
SortVidx ==
    /\ pc = "encode"
    /\ PendingParts = {}
    /\ vidx' \in ParallelSort(vidx, nparts)
    /\ pc' = "apply_lb"
    /\ UNCHANGED <<fn_call, propVars, aabbVars, bvhOnlyVars, cast_inf, lbs, ubs, global_lb_atomic, global_ub_atomic, global_lb, global_ub,
                   mcodes, nparts, srt_mcodes, srt_lbs, srt_ubs, done>>

\* morton_encode_sort: isort_apply on the four lb arrays.
ApplyLbs ==
    /\ pc = "apply_lb"
    /\ srt_lbs' = IsortApply(lbs)
    /\ pc' = "apply_ub"
    /\ UNCHANGED <<fn_call, propVars, aabbVars, bvhOnlyVars, cast_inf, lbs, ubs, global_lb_atomic, global_ub_atomic, global_lb, global_ub,
                   mcodes, vidx, nparts, srt_mcodes, srt_ubs, done>>

\* morton_encode_sort: isort_apply on the four ub arrays.
ApplyUbs ==
    /\ pc = "apply_ub"
    /\ srt_ubs' = IsortApply(ubs)
    /\ pc' = "apply_mc"
    /\ UNCHANGED <<fn_call, propVars, aabbVars, bvhOnlyVars, cast_inf, lbs, ubs, global_lb_atomic, global_ub_atomic, global_lb, global_ub,
                   mcodes, vidx, nparts, srt_mcodes, srt_lbs, done>>

\* morton_encode_sort: isort_apply on the Morton codes; the chunk is sorted.
ApplyMcodes ==
    /\ pc = "apply_mc"
    /\ srt_mcodes' = IsortApply(mcodes)
    /\ pc' = "sorted"
    /\ UNCHANGED <<fn_call, propVars, aabbVars, bvhOnlyVars, cast_inf, lbs, ubs, global_lb_atomic, global_ub_atomic, global_lb, global_ub,
                   mcodes, vidx, nparts, srt_lbs, srt_ubs, done>>

SortNext ==
    \/ \E i \in 0..(nparts - 1) : VidxInit(i)
    \/ LoadGlobal
    \/ \E pidx \in 0..(nparts - 1) : EncodeParticle(pidx)
    \/ \E pidx \in 0..(nparts - 1) : EncodeAssertFail(pidx)
    \/ SortVidx
    \/ ApplyLbs
    \/ ApplyUbs
    \/ ApplyMcodes

\* The state of the BVH construction plays no part in the sorting.
BvhIdle ==
    /\ tree = <<>>
    /\ nc_buf = <<>>
    /\ ps_buf = <<>>
    /\ nplc_buf = <<>>
    /\ cur_n_nodes = 0
    /\ nn_next_level = 0
    /\ n_leaf_nodes = 0
    /\ n_begin = 0
    /\ n_end = 0

InitSort == SortInit /\ BvhIdle /\ AabbIdle

NextSort == SortNext

SpecSort == InitSort /\ [][NextSort]_vars

\* morton_encode_sort has finished the chunk.
Sorted == pc = "sorted"

\* C10: after morton_encode_sort, vidx is a permutation of 0..P-1, every
\* sorted array (codes, lb, ub) is the gather of its unsorted array through
\* vidx, and the sorted codes are non-decreasing.
C10_SortedPermutation ==
    Sorted =>
        /\ DOMAIN vidx = 0..(nparts - 1)
        /\ \A p \in 0..(nparts - 1) :
              Cardinality({i \in 0..(nparts - 1) : vidx[i] = p}) = 1
        /\ \A i \in 0..(nparts - 1) :
              /\ srt_mcodes[i] = mcodes[vidx[i]]
              /\ srt_lbs[i] = lbs[vidx[i]]
              /\ srt_ubs[i] = ubs[vidx[i]]
        /\ \A i \in 0..(nparts - 2) : ~CodeLess(srt_mcodes[i + 1], srt_mcodes[i])

C10_Witness ==
    /\ Sorted
    /\ nparts >= 3
    /\ \E i \in 0..(nparts - 1) : vidx[i] # i
    /\ \E i \in 0..(nparts - 2) : srt_mcodes[i] = srt_mcodes[i + 1]
    /\ \E i \in 0..(nparts - 2) : CodeLess(srt_mcodes[i], srt_mcodes[i + 1])

-----------------------------------------------------------------------------
(* AABBs of the particles: helpers.                                        *)
(* A double and a double-double are integers; a float is an integer that   *)
(* is a multiple of FloatUlp, and narrowing a double rounds to nearest.    *)

\* Distance between two neighbouring floats.
FloatUlp == 4

\* static_cast<float>(d): the nearest float, ties to the even one.
ToFloat(d) ==
    LET lo == (d \div FloatUlp) * FloatUlp
        r == d - lo
    IN IF 2 * r < FloatUlp THEN lo
       ELSE IF 2 * r > FloatUlp THEN lo + FloatUlp
       ELSE IF (lo \div FloatUlp) % 2 = 0 THEN lo ELSE lo + FloatUlp

\* Mutant of NextAfter: the float is not moved.
NextAfterNone(x, dir) == x

\* std::nextafter(x, dir) on floats.
NextAfter(x, dir) ==
    IF x = finf \/ x = -finf THEN x
    ELSE IF dir > x THEN x + FloatUlp
    ELSE IF dir < x THEN x - FloatUlp
    ELSE x

\* detail::ival and its two operators.
ival(l, u) == [lower |-> l, upper |-> u]

IvalAdd(a, b) == ival(a.lower + b.lower, a.upper + b.upper)

\* Mutant of IvalMul: only the products of like endpoints are formed.
IvalMulLikeEnds(a, b) == ival(a.lower * b.lower, a.upper * b.upper)

IvalMul(a, b) ==
    LET tmp1 == a.lower * b.lower
        tmp2 == a.lower * b.upper
        tmp3 == a.upper * b.lower
        tmp4 == a.upper * b.upper
    IN ival(Min(Min(tmp1, tmp2), Min(tmp3, tmp4)),
            Max(Max(tmp1, tmp2), Max(tmp3, tmp4)))

\* Mutant of HornerAcc: the coefficients are taken in ascending order,
\* ptr[0] innermost.
RECURSIVE HornerAccAscending(_, _, _, _)
HornerAccAscending(tc, base, h_int, o) ==
    IF o = 0 THEN ival(tc[base], tc[base])
    ELSE IvalAdd(ival(tc[base + o], tc[base + o]),
                 IvalMul(HornerAccAscending(tc, base, h_int, o - 1), h_int))

\* horner_eval(ptr) after o iterations of its loop, ptr = tc + base.
RECURSIVE HornerAcc(_, _, _, _)
HornerAcc(tc, base, h_int, o) ==
    IF o = 0 THEN ival(tc[base + order], tc[base + order])
    ELSE IvalAdd(ival(tc[base + order - o], tc[base + order - o]),
                 IvalMul(HornerAcc(tc, base, h_int, o - 1), h_int))

horner_eval(tc, base, h_int) == HornerAcc(tc, base, h_int, order)

\* std::upper_bound(first, first + len, val) on the end times tc: the first
\* position whose time is greater than val.
RECURSIVE UpperBoundTime(_, _, _, _)
UpperBoundTime(tc, first, len, val) ==
    IF len <= 0 THEN first
    ELSE LET half == len \div 2
             mid == first + half
         IN IF val < tc[mid]
            THEN UpperBoundTime(tc, first, half, val)
            ELSE UpperBoundTime(tc, mid + 1, len - half - 1, val)

\* std::lower_bound(first, first + len, val) on the end times tc: the first
\* position whose time is not less than val.
RECURSIVE LowerBoundTime(_, _, _, _)
LowerBoundTime(tc, first, len, val) ==
    IF len <= 0 THEN first
    ELSE LET half == len \div 2
             mid == first + half
         IN IF tc[mid] < val
            THEN LowerBoundTime(tc, mid + 1, len - half - 1, val)
            ELSE LowerBoundTime(tc, first, half, val)

\* const auto delta_t = 0.46 * 8u, in the model's time unit.
delta_t == NChunks * chunk_size

\* The time coordinates of the begin/end of chunk k.
chunk_begin(k) == chunk_size * k
chunk_end(k) == chunk_size * (k + 1)

\* Mutant of ss_it_begin: the first substep whose end is not less than the
\* begin of the chunk.
ss_it_begin_not_less(tc, k) == LowerBoundTime(tc, 0, Size(tc), chunk_begin(k))

\* The substep range [ss_it_begin, ss_it_end) of chunk k for end times tc.
ss_it_begin(tc, k) == UpperBoundTime(tc, 0, Size(tc), chunk_begin(k))

\* Mutant of ss_it_end: the iterator is not bumped up by one.
ss_it_end_no_bump(tc, k) ==
    LowerBoundTime(tc, ss_it_begin(tc, k), Size(tc) - ss_it_begin(tc, k), chunk_end(k))

ss_it_end(tc, k) ==
    LET b == ss_it_begin(tc, k)
        e == LowerBoundTime(tc, b, Size(tc) - b, chunk_end(k))
    IN IF e # Size(tc) THEN e + 1 ELSE e

\* The initial time coordinate of substep it.
ss_start(tc, it) == IF it = 0 THEN 0 ELSE tc[it - 1]

\* Bounds of the evaluation interval of substep it in chunk k.
ev_lb(tc, it, k) == Max(chunk_begin(k), ss_start(tc, it))
ev_ub(tc, it, k) == Min(chunk_end(k), tc[it])

\* The evaluation interval referred to the beginning of the substep.
h_int(tc, it, k) ==
    ival(ev_lb(tc, it, k) - ss_start(tc, it), ev_ub(tc, it, k) - ss_start(tc, it))

\* The Taylor coefficients of particle data sd for coordinate c in 1..4
\* (x, y, z, r).
TcOf(sd, c) ==
    CASE c = 1 -> sd.tc_x [] c = 2 -> sd.tc_y [] c = 3 -> sd.tc_z [] c = 4 -> sd.tc_r

\* The update of the lower/upper bounds of a particle over the substeps
\* it .. it_end - 1 of chunk k, starting from the bounds acc.
RECURSIVE AabbLb(_, _, _, _, _)
AabbLb(acc, sd, it, it_end, k) ==
    IF it >= it_end THEN acc
    ELSE AabbLb(
            [c \in 1..4 |->
                Min(acc[c],
                    NextAfter(ToFloat(horner_eval(TcOf(sd, c), it * (order + 1),
                                                  h_int(sd.tcoords, it, k)).lower),
                              -finf))],
            sd, it + 1, it_end, k)

RECURSIVE AabbUb(_, _, _, _, _)
AabbUb(acc, sd, it, it_end, k) ==
    IF it >= it_end THEN acc
    ELSE AabbUb(
            [c \in 1..4 |->
                Max(acc[c],
                    NextAfter(ToFloat(horner_eval(TcOf(sd, c), it * (order + 1),
                                                  h_int(sd.tcoords, it, k)).upper),
                              finf))],
            sd, it + 1, it_end, k)

-----------------------------------------------------------------------------
(* AABBs of the particles: inputs.                                         *)

\* Taylor coefficient of power o of the polynomials the model's integrator
\* records: increasing, alternating and with an interior minimum.
PolyCoeff(f, o) ==
    CASE f = 1 -> 1 + o
      [] f = 2 -> IF o % 2 = 0 THEN -3 ELSE 2 + o
      [] f = 3 -> IF o = 0 THEN 5 ELSE IF o = 1 THEN -4 ELSE 1

\* The record of a particle whose substeps end at the times tc and carry
\* the polynomials fs: flat arrays of order + 1 coefficients per substep.
SubstepRecord(tc, fs) ==
    LET n == Size(tc)
        flat(g(_, _)) == [j \in 0..(n * (order + 1) - 1) |->
                              g(fs[j \div (order + 1)], j % (order + 1))]
        x(f, o) == PolyCoeff(f, o)
        y(f, o) == -PolyCoeff(f, o)
        z(f, o) == PolyCoeff((f % 3) + 1, o)
        r(f, o) == IF o = 0 THEN 7 ELSE 0
    IN [tcoords |-> tc, tc_x |-> flat(x), tc_y |-> flat(y),
        tc_z |-> flat(z), tc_r |-> flat(r)]

\* Strictly increasing end times of at most MaxSubsteps substeps that end
\* at delta_t, the time limit of the propagation, or fall short of it by
\* the rounding of the accumulated time.
SubstepTimes ==
    UNION {{tc \in [0..(n - 1) -> 1..delta_t] :
                /\ tc[n - 1] \in {delta_t - 1, delta_t}
                /\ \A j \in 0..(n - 2) : tc[j] < tc[j + 1]} : n \in 1..MaxSubsteps}

\* The records an integration that reached the time limit can leave.
SubstepRecords ==
    UNION {{SubstepRecord(tc, fs) : fs \in [0..(Size(tc) - 1) -> 1..3]} :
               tc \in SubstepTimes}

\* propagate_for after the integration of the batch of particles
\* 0..BatchSize-1: one lane holds any record, the others a one-substep
\* record; the AABB arrays are value-initialised.
AabbInit ==
    /\ nparts = BatchSize
    /\ \E l \in 0..(nparts - 1) : \E rec \in SubstepRecords :
          s_data = [p \in 0..(nparts - 1) |->
                       IF p = l THEN rec
                       ELSE SubstepRecord([j \in {0} |-> delta_t], [j \in {0} |-> 1])]
    /\ lbs = [q \in 0..(nparts * NChunks - 1) |-> <<0, 0, 0, 0>>]
    /\ ubs = [q \in 0..(nparts * NChunks - 1) |-> <<0, 0, 0, 0>>]
    /\ chunk_idx = 0
    /\ lane_idx = 0
    /\ done = {}
    /\ pc = "aabb"

-----------------------------------------------------------------------------
(* AABBs of the particles: the loop over the chunks and the batch.         *)

\* One iteration of the loop over the batch: the AABB of particle
\* pidx_begin + i in chunk chunk_idx, pidx_begin = 0.
AabbLane ==
    /\ pc = "aabb"
    /\ chunk_idx < NChunks
    /\ lane_idx < BatchSize
    /\ LET offset == nparts * chunk_idx
           sd == s_data[lane_idx]
           b == ss_it_begin(sd.tcoords, chunk_idx)
           e == ss_it_end(sd.tcoords, chunk_idx)
       IN /\ lbs' = [lbs EXCEPT ![offset + lane_idx] =
                        AabbLb(default_lb, sd, b, e, chunk_idx)]
          /\ ubs' = [ubs EXCEPT ![offset + lane_idx] =
                        AabbUb(default_ub, sd, b, e, chunk_idx)]
    /\ lane_idx' = lane_idx + 1
    /\ UNCHANGED <<fn_call, propVars, s_data, chunk_idx, global_lb_atomic, global_ub_atomic, global_lb,
                   global_ub, mcodes, vidx, cast_inf, bvhVars>>

\* The batch is finished for the chunk: next chunk.
AabbNextChunk ==
    /\ pc = "aabb"
    /\ chunk_idx < NChunks
    /\ lane_idx = BatchSize
    /\ chunk_idx' = chunk_idx + 1
    /\ lane_idx' = 0
    /\ UNCHANGED <<fn_call, propVars, s_data, sortVars, bvhVars>>

\* All the chunks are finished.
AabbEnd ==
    /\ pc = "aabb"
    /\ chunk_idx = NChunks
    /\ pc' = "aabb_done"
    /\ UNCHANGED <<fn_call, propVars, aabbVars, sortVars, bvhOnlyVars, nparts, srt_mcodes, srt_lbs,
                   srt_ubs, done>>

AabbNext ==
    \/ AabbLane
    \/ AabbNextChunk
    \/ AabbEnd

\* The arrays of the sorting and of the BVH construction that the AABB
\* loop does not touch.
AabbOthersIdle ==
    /\ upd = <<>>
    /\ RegionIdle
    /\ global_lb_atomic = default_lb
    /\ global_ub_atomic = default_ub
    /\ global_lb = default_lb
    /\ global_ub = default_ub
    /\ mcodes = <<>>
    /\ vidx = <<>>
    /\ cast_inf = 0
    /\ srt_mcodes = <<>>
    /\ srt_lbs = <<>>
    /\ srt_ubs = <<>>

InitAabb == AabbInit /\ AabbOthersIdle /\ BvhIdle

NextAabb == AabbNext

SpecAabb == InitAabb /\ [][NextAabb]_vars

\* The AABB of particle p in chunk k has been stored.
Stored(k, p) ==
    \/ pc = "aabb_done"
    \/ pc = "aabb" /\ (k < chunk_idx \/ (k = chunk_idx /\ p < lane_idx))

\* The end times of the record are strictly increasing and cover [0, delta_t].
ValidRecord(sd) ==
    /\ Size(sd.tcoords) >= 1
    /\ \A j \in 0..(Size(sd.tcoords) - 2) : sd.tcoords[j] < sd.tcoords[j + 1]
    /\ sd.tcoords[0] > 0
    /\ sd.tcoords[Size(sd.tcoords) - 1] >= delta_t

\* h^o.
RECURSIVE Power(_, _)
Power(h, o) == IF o = 0 THEN 1 ELSE h * Power(h, o - 1)

\* Sum over the powers 0..o of tc[base + o] * h^o: the value of the
\* polynomial of a substep at the time h after its beginning.
RECURSIVE PolyValue(_, _, _, _)
PolyValue(tc, base, h, o) ==
    IF o < 0 THEN 0 ELSE tc[base + o] * Power(h, o) + PolyValue(tc, base, h, o - 1)

\* C1: for every stored (chunk k, particle p) whose record is valid, the
\* selected substeps are consecutive and their evaluation intervals
\* [ev_lb, ev_ub] cover [chunk_begin, chunk_end] without a gap; and for every
\* substep that overlaps the chunk and every time t of the overlap, the value
\* of the substep's polynomial at t is inside the stored [lb, ub], for each
\* of x, y, z, r.
C1_AabbContainment ==
    \A k \in 0..(NChunks - 1) : \A p \in 0..(nparts - 1) :
        (Stored(k, p) /\ ValidRecord(s_data[p])) =>
            LET sd == s_data[p]
                tc == sd.tcoords
                b == ss_it_begin(tc, k)
                e == ss_it_end(tc, k)
                box_lb == lbs[nparts * k + p]
                box_ub == ubs[nparts * k + p]
            IN /\ b < e
               /\ ev_lb(tc, b, k) = chunk_begin(k)
               /\ ev_ub(tc, e - 1, k) = chunk_end(k)
               /\ \A it \in b..(e - 1) : ev_lb(tc, it, k) <= ev_ub(tc, it, k)
               /\ \A it \in b..(e - 2) : ev_ub(tc, it, k) = ev_lb(tc, it + 1, k)
               /\ \A it \in 0..(Size(tc) - 1) :
                     LET lo == Max(chunk_begin(k), ss_start(tc, it))
                         hi == Min(chunk_end(k), tc[it])
                     IN lo < hi =>
                           \A t \in lo..hi : \A c \in 1..4 :
                               LET v == PolyValue(TcOf(sd, c), it * (order + 1),
                                                  t - ss_start(tc, it), order)
                               IN box_lb[c] <= v /\ v <= box_ub[c]

C1_Witness ==
    /\ pc = "aabb_done"
    /\ \E p \in 0..(nparts - 1) : \E k \in 1..(NChunks - 1) :
          LET tc == s_data[p].tcoords
          IN /\ ValidRecord(s_data[p])
             /\ ss_it_end(tc, k - 1) - ss_it_begin(tc, k - 1) >= 2
             /\ \E it \in 0..(Size(tc) - 1) : tc[it] = chunk_begin(k)
             /\ lbs[nparts * k + p] # lbs[nparts * (k - 1) + p]

-----------------------------------------------------------------------------
(* The order of the particles with equal Morton codes.                     *)

\* C11 (as stated): when morton_encode_sort has returned, two particles with
\* equal Morton codes appear in vidx in ascending order of their original
\* index, i.e. vidx is the stable-sorted order.
C11_StableOrder ==
    Sorted =>
        \A i, j \in 0..(nparts - 1) :
            (i < j /\ mcodes[vidx[i]] = mcodes[vidx[j]]) => vidx[i] < vidx[j]

\* C11 (amended): when morton_encode_sort has returned, vidx lists every
\* particle once and no particle comes before one with a smaller Morton code;
\* the particles with equal codes are adjacent, in any order.
C11_SortedByCode ==
    Sorted =>
        /\ {vidx[i] : i \in 0..(nparts - 1)} = 0..(nparts - 1)
        /\ \A i, j \in 0..(nparts - 1) :
              i < j => ~CodeLess(mcodes[vidx[j]], mcodes[vidx[i]])
        /\ \A i, j, l \in 0..(nparts - 1) :
              (i < l /\ l < j /\ mcodes[vidx[i]] = mcodes[vidx[j]])
                  => mcodes[vidx[l]] = mcodes[vidx[i]]

C11_Witness ==
    /\ Sorted
    /\ \E i, j \in 0..(nparts - 1) :
          /\ i < j
          /\ mcodes[vidx[i]] = mcodes[vidx[j]]
          /\ vidx[i] > vidx[j]
    /\ \E i, j \in 0..(nparts - 1) : CodeLess(mcodes[vidx[i]], mcodes[vidx[j]])

-----------------------------------------------------------------------------
(* Update of the global AABB of one chunk by concurrent workers.           *)

\* Number of workers that update the global AABB of the chunk concurrently.
NWorkers == 2

\* Local AABBs (local_lb, local_ub) a worker can pass to the updaters.
LocalBoxes ==
    << <<(<<1, -4, 0, finf>>), (<<3, -4, 2, -finf>>)>>,
       <<(<<-2, 5, 0, 7>>), (<<6, 9, 1, 7>>)>> >>

\* Mutant of NewVal: the worker's value, whatever the atomic holds.
NewValMine(call, val, orig_val) == val

\* new_val of lb_updater (calls 0..3) and of ub_updater (calls 4..7).
NewVal(call, val, orig_val) ==
    IF call < 4 THEN Min(val, orig_val) ELSE Max(val, orig_val)

\* The coordinate (1..4) that call number call updates.
CallCoord(call) == (call % 4) + 1

\* The value that call number call of worker w passes.
CallVal(w, call) ==
    IF call < 4 THEN upd[w].local_lb[CallCoord(call)]
    ELSE upd[w].local_ub[CallCoord(call)]

\* The value the atomic of call number call holds.
AtomicOf(call) ==
    IF call < 4 THEN global_lb_atomic[CallCoord(call)]
    ELSE global_ub_atomic[CallCoord(call)]

\* The workers have computed their local AABBs, which they take in turn
\* from LocalBoxes (the workers are interchangeable); the atomics are as the
\* resize has constructed them.
CasInit ==
    /\ \E first \in 1..Len(LocalBoxes) :
          upd = [w \in 1..NWorkers |->
                    [pc |-> "load", call |-> 0, orig_val |-> 0, new_val |-> 0, fails |-> 0,
                     local_lb |-> LocalBoxes[((w + first) % Len(LocalBoxes)) + 1][1],
                     local_ub |-> LocalBoxes[((w + first) % Len(LocalBoxes)) + 1][2]]]
    /\ global_lb_atomic = default_lb
    /\ global_ub_atomic = default_ub
    /\ pc = "update"

\* out.load(std::memory_order_relaxed) and the first new_val.
UpdLoad(w) ==
    /\ pc = "update"
    /\ upd[w].pc = "load"
    /\ upd' = [upd EXCEPT ![w].pc = "cas",
                          ![w].fails = 0,
                          ![w].orig_val = AtomicOf(upd[w].call),
                          ![w].new_val = NewVal(upd[w].call, CallVal(w, upd[w].call),
                                                AtomicOf(upd[w].call))]
    /\ UNCHANGED <<fn_call, int_error, b_ta_cache, task, chunk_pc, aabbVars, sortVars, bvhVars>>

\* The stores of a successful compare_exchange_weak.
CasStore(call, val) ==
    /\ global_lb_atomic' =
          IF call < 4 THEN [global_lb_atomic EXCEPT ![CallCoord(call)] = val]
          ELSE global_lb_atomic
    /\ global_ub_atomic' =
          IF call < 4 THEN global_ub_atomic
          ELSE [global_ub_atomic EXCEPT ![CallCoord(call)] = val]

\* compare_exchange_weak succeeds: the updater returns and the next one is
\* called.
UpdCasOk(w) ==
    /\ pc = "update"
    /\ upd[w].pc = "cas"
    /\ AtomicOf(upd[w].call) = upd[w].orig_val
    /\ CasStore(upd[w].call, upd[w].new_val)
    /\ upd' = [upd EXCEPT ![w].pc = IF upd[w].call = 7 THEN "done" ELSE "load",
                          ![w].call = upd[w].call + 1]
    /\ UNCHANGED <<fn_call, int_error, b_ta_cache, task, chunk_pc, aabbVars, lbs, ubs, global_lb,
                   global_ub, mcodes, vidx, cast_inf, bvhVars>>

\* Mutant of UpdCasFail: the failed compare_exchange_weak leaves orig_val as
\* it is.
UpdCasFailKeepOrig(w) ==
    /\ pc = "update"
    /\ upd[w].pc = "cas"
    /\ AtomicOf(upd[w].call) # upd[w].orig_val
    /\ upd' = [upd EXCEPT ![w].fails = upd[w].fails + 1]
    /\ UNCHANGED <<fn_call, int_error, b_ta_cache, task, chunk_pc, aabbVars, sortVars, bvhVars>>

\* compare_exchange_weak fails because the atomic has changed: orig_val is
\* reloaded and new_val is computed again; fails counts these failures of
\* the call.
UpdCasFail(w) ==
    /\ pc = "update"
    /\ upd[w].pc = "cas"
    /\ AtomicOf(upd[w].call) # upd[w].orig_val
    /\ upd' = [upd EXCEPT ![w].fails = upd[w].fails + 1,
                          ![w].orig_val = AtomicOf(upd[w].call),
                          ![w].new_val = NewVal(upd[w].call, CallVal(w, upd[w].call),
                                                AtomicOf(upd[w].call))]
    /\ UNCHANGED <<fn_call, int_error, b_ta_cache, task, chunk_pc, aabbVars, sortVars, bvhVars>>

\* compare_exchange_weak fails spuriously: the atomic still holds orig_val.
UpdCasSpurious(w) ==
    /\ pc = "update"
    /\ upd[w].pc = "cas"
    /\ AtomicOf(upd[w].call) = upd[w].orig_val
    /\ upd' = [upd EXCEPT ![w].orig_val = AtomicOf(upd[w].call),
                          ![w].new_val = NewVal(upd[w].call, CallVal(w, upd[w].call),
                                                AtomicOf(upd[w].call))]
    /\ UNCHANGED <<fn_call, int_error, b_ta_cache, task, chunk_pc, aabbVars, sortVars, bvhVars>>

\* All the workers have returned from their updaters.
UpdJoin ==
    /\ pc = "update"
    /\ \A w \in 1..NWorkers : upd[w].pc = "done"
    /\ pc' = "joined"
    /\ UNCHANGED <<fn_call, propVars, aabbVars, sortVars, bvhOnlyVars, nparts, srt_mcodes,
                   srt_lbs, srt_ubs, done>>

CasNext ==
    \/ \E w \in 1..NWorkers : UpdLoad(w)
    \/ \E w \in 1..NWorkers : UpdCasOk(w)
    \/ \E w \in 1..NWorkers : UpdCasFail(w)
    \/ \E w \in 1..NWorkers : UpdCasSpurious(w)
    \/ UpdJoin

\* The arrays that the updaters do not touch.
CasOthersIdle ==
    /\ RegionIdle
    /\ s_data = <<>>
    /\ chunk_idx = 0
    /\ lane_idx = 0
    /\ lbs = <<>>
    /\ ubs = <<>>
    /\ global_lb = default_lb
    /\ global_ub = default_ub
    /\ mcodes = <<>>
    /\ vidx = <<>>
    /\ cast_inf = 0
    /\ nparts = 0
    /\ srt_mcodes = <<>>
    /\ srt_lbs = <<>>
    /\ srt_ubs = <<>>
    /\ done = {}

InitCas == CasInit /\ CasOthersIdle /\ BvhIdle

NextCas == CasNext

SpecCas == InitCas /\ [][NextCas]_vars

\* The workers are scheduled fairly and compare_exchange_weak fails
\* spuriously finitely many times: a worker that can go on with its load or
\* with a compare-exchange that is not spurious eventually does.
SpecCasFair ==
    /\ SpecCas
    /\ \A w \in 1..NWorkers : WF_vars(UpdLoad(w) \/ UpdCasOk(w) \/ UpdCasFail(w))

\* Worker w has returned from call number call.
Returned(w, call) == upd[w].call > call

\* C13: at any time the atomic of a coordinate is not worse than the value of
\* any worker that has returned from its update (not greater for lb_updater,
\* not less for ub_updater), and once all the workers have returned it holds
\* the minimum (lb) or the maximum (ub) of its initial value and of all the
\* workers' values.
C13_NoLostUpdate ==
    /\ \A w \in 1..NWorkers : \A c \in 1..4 :
          /\ Returned(w, c - 1) => global_lb_atomic[c] <= upd[w].local_lb[c]
          /\ Returned(w, c + 3) => global_ub_atomic[c] >= upd[w].local_ub[c]
    /\ pc = "joined" =>
          \A c \in 1..4 :
              /\ global_lb_atomic[c]
                    = SetMin({default_lb[c]} \cup {upd[w].local_lb[c] : w \in 1..NWorkers})
              /\ global_ub_atomic[c]
                    = SetMax({default_ub[c]} \cup {upd[w].local_ub[c] : w \in 1..NWorkers})

C13_Witness ==
    \E w \in 1..NWorkers :
        /\ upd[w].pc = "cas"
        /\ upd[w].call < 4
        /\ AtomicOf(upd[w].call) < upd[w].new_val
        /\ \E v \in 1..NWorkers : Returned(v, upd[w].call)

-----------------------------------------------------------------------------
(* propagate_for: the parallel region (integration, AABBs, global AABB,    *)
(* initialisation of the indices vector) and what follows its join.        *)

\* const auto n_batches = nparts / batch_size.
n_batches == nparts \div BatchSize

\* const auto s_rem = nparts % batch_size.
s_rem == nparts % BatchSize

\* A value-initialised element of s_data, and an element after the clear()
\* of its vectors.
EmptyRecord ==
    [tcoords |-> <<>>, tc_x |-> <<>>, tc_y |-> <<>>, tc_z |-> <<>>, tc_r |-> <<>>]

\* The record the callback leaves for particle pidx when the propagation of
\* its batch reaches the time limit: one substep, with a polynomial that
\* depends on the particle.
BatchRecord(pidx) ==
    SubstepRecord([j \in {0} |-> delta_t], [j \in {0} |-> (pidx % 3) + 1])

\* The AABB that the loop over the substeps leaves for a particle with
\* record sd in chunk k.
KernelLb(sd, k) ==
    AabbLb(default_lb, sd, ss_it_begin(sd.tcoords, k), ss_it_end(sd.tcoords, k), k)

KernelUb(sd, k) ==
    AabbUb(default_ub, sd, ss_it_begin(sd.tcoords, k), ss_it_end(sd.tcoords, k), k)

\* Mutant of BatchParts: the batch starts one particle too late.
BatchPartsShifted(idx) == (idx * BatchSize + 1)..(idx * BatchSize + BatchSize)

\* The particles of batch idx.
BatchParts(idx) == (idx * BatchSize)..(idx * BatchSize + BatchSize - 1)

\* The subranges into which parallel_for splits blocked_range(0, n): one per
\* invocation of the body, named by its begin; cuts are the begins after 0.
RangeEnd(cuts, b, n) ==
    CHOOSE e \in (cuts \cup {n}) :
        e > b /\ \A x \in (cuts \cup {n}) : x > b => e <= x

\* Mutant of TryPop: the instance is handed out but stays in the queue.
TryPopKeep(q) == q

\* b_ta_cache.try_pop(ta_ptr) on a non-empty queue: what is left in it.
TryPop(q) == Tail(q)

\* Mutant of ErrorFlag: the failure of the propagation is not recorded.
ErrorFlagKeep(cur, failed) == cur

\* int_error after the check of the propagation's outcomes.
ErrorFlag(cur, failed) == cur \/ failed

\* What an earlier call of propagate_for and of the BVH construction left in
\* an element of the arrays of m_data (resize() keeps the elements).
LeftRecord == SubstepRecord([j \in 0..1 |-> IF j = 0 THEN 1 ELSE delta_t], [j \in 0..1 |-> 2])
LeftLb == <<-40, -40, -40, -40>>
LeftUb == <<40, 40, 40, 40>>
LeftCode == <<1, 1, 1, 1>>

\* The state of propagate_for when parallel_invoke starts: the arrays are
\* resized, so that they are value-initialised in the first call and keep
\* their contents in a later one; the atomics are constructed; the
\* integrator cache is empty or holds an instance left by an earlier call.
PropInit ==
    /\ nparts \in 1..(MaxParts + 1)
    /\ \E cuts \in SUBSET (1..(n_batches - 1)) :
          task = [b \in (IF n_batches = 0 THEN {} ELSE cuts \cup {0}) |->
                     [rend |-> RangeEnd(cuts, b, n_batches), pc |-> "start",
                      idx |-> b, ta |-> <<>>, chunk_idx |-> 0]]
    /\ b_ta_cache \in {<<>>, << <<"cached", 0>> >>}
    /\ int_error = FALSE
    /\ \E first_call \in BOOLEAN :
          LET flat(fresh, left) ==
                  [q \in 0..(nparts * NChunks - 1) |-> IF first_call THEN fresh ELSE left]
              chunks(fresh, left) ==
                  [k \in 0..(NChunks - 1) |-> IF first_call THEN fresh ELSE left]
          IN /\ s_data = [p \in 0..(nparts - 1) |->
                              IF first_call THEN EmptyRecord ELSE LeftRecord]
             /\ lbs = flat(<<0, 0, 0, 0>>, LeftLb)
             /\ ubs = flat(<<0, 0, 0, 0>>, LeftUb)
             /\ vidx = [q \in 0..(nparts * NChunks - 1) |->
                            IF first_call THEN 0 ELSE nparts - 1 - (q % nparts)]
             /\ global_lb = chunks(<<0, 0, 0, 0>>, LeftLb)
             /\ global_ub = chunks(<<0, 0, 0, 0>>, LeftUb)
             /\ mcodes = flat(<<0, 0, 0, 0>>, LeftCode)
             /\ srt_lbs = flat(<<0, 0, 0, 0>>, LeftLb)
             /\ srt_ubs = flat(<<0, 0, 0, 0>>, LeftUb)
             /\ srt_mcodes = flat(<<0, 0, 0, 0>>, LeftCode)
             /\ tree = chunks(<<>>, [i \in {0} |-> [RootNode EXCEPT !.lb = LeftLb, !.ub = LeftUb]])
             /\ nc_buf = chunks(<<>>, [i \in {0} |-> 0])
             /\ ps_buf = chunks(<<>>, [i \in {0} |-> 0])
             /\ nplc_buf = chunks(<<>>, [i \in {0} |-> 0])
    /\ global_lb_atomic = [k \in 0..(NChunks - 1) |-> default_lb]
    /\ global_ub_atomic = [k \in 0..(NChunks - 1) |-> default_ub]
    /\ cast_inf \in CastInfOutcomes
    /\ chunk_pc = [k \in 0..(NChunks - 1) |-> "load"]
    /\ done = {}
    /\ pc = "invoke"

\* batch_int_aabb: an integrator is fetched from the cache, or created.
TaskAcquire(t) ==
    /\ pc = "invoke"
    /\ task[t].pc = "start"
    /\ IF b_ta_cache # <<>>
       THEN /\ task' = [task EXCEPT ![t].ta = Head(b_ta_cache), ![t].pc = "loop"]
            /\ b_ta_cache' = TryPop(b_ta_cache)
       ELSE /\ task' = [task EXCEPT ![t].ta = <<"created", t>>, ![t].pc = "loop"]
            /\ b_ta_cache' = b_ta_cache
    /\ UNCHANGED <<fn_call, upd, int_error, chunk_pc, aabbVars, sortVars, bvhVars>>

\* batch_int_aabb: one iteration of the loop over the batches of the range:
\* the records are cleared, the batch is propagated and, unless a lane ends
\* with an outcome other than time_limit, its AABBs are computed for every
\* chunk.
TaskBatch(t, time_limit) ==
    /\ pc = "invoke"
    /\ task[t].pc = "loop"
    /\ task[t].idx < task[t].rend
    /\ int_error' = ErrorFlag(int_error, ~time_limit)
    /\ LET batch == BatchParts(task[t].idx)
           rec(p) == IF time_limit THEN BatchRecord(p) ELSE EmptyRecord
       IN /\ s_data' = [p \in 0..(nparts - 1) |->
                           IF p \in batch THEN rec(p) ELSE s_data[p]]
          /\ lbs' = [q \in 0..(nparts * NChunks - 1) |->
                        IF time_limit /\ (q % nparts) \in batch
                        THEN KernelLb(rec(q % nparts), q \div nparts)
                        ELSE lbs[q]]
          /\ ubs' = [q \in 0..(nparts * NChunks - 1) |->
                        IF time_limit /\ (q % nparts) \in batch
                        THEN KernelUb(rec(q % nparts), q \div nparts)
                        ELSE ubs[q]]
    /\ task' = IF time_limit
               THEN [task EXCEPT ![t].idx = task[t].idx + 1]
               ELSE [task EXCEPT ![t].pc = "reduce"]
    /\ UNCHANGED <<fn_call, upd, b_ta_cache, chunk_pc, chunk_idx, lane_idx, global_lb_atomic,
                   global_ub_atomic, global_lb, global_ub, mcodes, vidx, cast_inf,
                   bvhVars>>

\* batch_int_aabb: the loop over the batches has reached the end of the range.
TaskLoopEnd(t) ==
    /\ pc = "invoke"
    /\ task[t].pc = "loop"
    /\ task[t].idx = task[t].rend
    /\ task' = [task EXCEPT ![t].pc = "reduce"]
    /\ UNCHANGED <<fn_call, upd, int_error, b_ta_cache, chunk_pc, aabbVars, sortVars, bvhVars>>

\* batch_int_aabb: the local AABB of the range in one chunk and the update
\* of the chunk's global AABB (each updater acts as one step on its atomic).
TaskReduce(t) ==
    /\ pc = "invoke"
    /\ task[t].pc = "reduce"
    /\ task[t].chunk_idx < NChunks
    /\ LET k == task[t].chunk_idx
           offset == nparts * k
           local_lb == LocalLb(default_lb, offset + t * BatchSize,
                               offset + task[t].rend * BatchSize)
           local_ub == LocalUb(default_ub, offset + t * BatchSize,
                               offset + task[t].rend * BatchSize)
       IN /\ global_lb_atomic' =
                [global_lb_atomic EXCEPT ![k] = LbUpdater(global_lb_atomic[k], local_lb)]
          /\ global_ub_atomic' =
                [global_ub_atomic EXCEPT ![k] = UbUpdater(global_ub_atomic[k], local_ub)]
    /\ task' = [task EXCEPT ![t].chunk_idx = task[t].chunk_idx + 1]
    /\ UNCHANGED <<fn_call, upd, int_error, b_ta_cache, chunk_pc, aabbVars, lbs, ubs, global_lb, global_ub,
                   mcodes, vidx, cast_inf, bvhVars>>

\* batch_int_aabb: the integrator is put (back) into the cache.
TaskRelease(t) ==
    /\ pc = "invoke"
    /\ task[t].pc = "reduce"
    /\ task[t].chunk_idx = NChunks
    /\ b_ta_cache' = Append(b_ta_cache, task[t].ta)
    /\ task' = [task EXCEPT ![t].pc = "done"]
    /\ UNCHANGED <<fn_call, upd, int_error, chunk_pc, aabbVars, sortVars, bvhVars>>

\* The first branch of parallel_invoke: the indices of one chunk.
VidxInitChunk(k) ==
    /\ pc = "invoke"
    /\ k \notin done
    /\ vidx' = [q \in 0..(nparts * NChunks - 1) |->
                   IF q \div nparts = k THEN VidxValue(q % nparts) ELSE vidx[q]]
    /\ done' = done \cup {k}
    /\ UNCHANGED <<fn_call, propVars, aabbVars, bvhOnlyVars, cast_inf, lbs, ubs, global_lb_atomic,
                   global_ub_atomic, global_lb, global_ub, mcodes, nparts, srt_mcodes,
                   srt_lbs, srt_ubs, pc>>

\* Mutant of Joined: the initialisation of the indices is not waited for.
JoinedBatchesOnly == \A t \in DOMAIN task : task[t].pc = "done"

\* Both branches of parallel_invoke have finished.
Joined ==
    /\ done = 0..(NChunks - 1)
    /\ \A t \in DOMAIN task : task[t].pc = "done"

\* parallel_invoke returns.
PropJoin ==
    /\ pc = "invoke"
    /\ Joined
    /\ pc' = "joined"
    /\ UNCHANGED <<fn_call, propVars, aabbVars, sortVars, bvhOnlyVars, nparts, srt_mcodes,
                   srt_lbs, srt_ubs, done>>

\* int_error is set: the throw expression without an operand and without an
\* exception being handled ends the program through std::terminate.
PropThrow ==
    /\ pc = "joined"
    /\ int_error
    /\ pc' = "terminate"
    /\ UNCHANGED <<fn_call, propVars, aabbVars, sortVars, bvhOnlyVars, nparts, srt_mcodes,
                   srt_lbs, srt_ubs, done>>

\* int_error is not set: morton_encode_sort is called.
PropSort ==
    /\ pc = "joined"
    /\ ~int_error
    /\ pc' = "sort"
    /\ UNCHANGED <<fn_call, propVars, aabbVars, sortVars, bvhOnlyVars, nparts, srt_mcodes,
                   srt_lbs, srt_ubs, done>>

\* The chunk of position q of a flat array and the position in the chunk.
ChunkOf(q) == q \div nparts
InChunk(q) == q % nparts

\* mcodes_ptr[pidx] of the chunk with the global AABB glb, gub: each call of
\* disc_single_coord has one outcome in a given build.
ChunkCode(q, glb, gub) ==
    LET ctr == Centre(q)
        n(c) == CHOOSE v \in disc_single_coord(ctr[c], glb[c], gub[c]) : TRUE
    IN MortonEncode(n(1), n(2), n(3), n(4))

\* morton_encode_sort, chunk k: the atomic global AABB is loaded into the
\* plain one and the Morton codes of the chunk's particles are computed.
ChunkEncode(k) ==
    /\ pc = "sort"
    /\ chunk_pc[k] = "load"
    /\ global_lb' = [global_lb EXCEPT ![k] = global_lb_atomic[k]]
    /\ global_ub' = [global_ub EXCEPT ![k] = global_ub_atomic[k]]
    /\ mcodes' = [q \in 0..(nparts * NChunks - 1) |->
                     IF ChunkOf(q) = k
                     THEN ChunkCode(q, global_lb_atomic[k], global_ub_atomic[k])
                     ELSE mcodes[q]]
    /\ chunk_pc' = [chunk_pc EXCEPT ![k] = "sort"]
    /\ UNCHANGED <<fn_call, upd, int_error, b_ta_cache, task, aabbVars, lbs, ubs,
                   global_lb_atomic, global_ub_atomic, vidx, cast_inf, bvhVars>>

\* morton_encode_sort, chunk k, build with assertions: an assertion of
\* disc_single_coord fails and the program is aborted.
ChunkAssertFail(k) ==
    /\ pc = "sort"
    /\ chunk_pc[k] = "load"
    /\ \E q \in 0..(nparts * NChunks - 1) : \E c \in 1..4 :
          /\ ChunkOf(q) = k
          /\ ~DiscPrecondition(Centre(q)[c], global_lb_atomic[k][c], global_ub_atomic[k][c])
    /\ pc' = "abort"
    /\ UNCHANGED <<fn_call, propVars, aabbVars, sortVars, bvhOnlyVars, nparts, srt_mcodes,
                   srt_lbs, srt_ubs, done>>

\* morton_encode_sort, chunk k: the indirect sorting of the chunk's indices;
\* the comparator reads mcodes_ptr[idx] = mcodes[offset + idx].
ChunkSortVidx(k) ==
    /\ pc = "sort"
    /\ chunk_pc[k] = "sort"
    /\ LET offset == nparts * k
       IN \E w \in ParallelSort([i \in 0..(nparts - 1) |-> offset + vidx[offset + i]],
                                nparts) :
             vidx' = [q \in 0..(nparts * NChunks - 1) |->
                         IF ChunkOf(q) = k THEN w[InChunk(q)] - offset ELSE vidx[q]]
    /\ chunk_pc' = [chunk_pc EXCEPT ![k] = "apply"]
    /\ UNCHANGED <<fn_call, upd, int_error, b_ta_cache, task, aabbVars, lbs, ubs,
                   global_lb_atomic, global_ub_atomic, global_lb, global_ub, mcodes,
                   cast_inf, bvhVars>>

\* isort_apply(out, src) of chunk k: out[i] = src[vidx_ptr[i]].
IsortApplyChunk(out, src, k) ==
    [q \in 0..(nparts * NChunks - 1) |->
        IF ChunkOf(q) = k THEN src[nparts * k + vidx[q]] ELSE out[q]]

\* morton_encode_sort, chunk k: the sorted copies of the AABBs and of the
\* Morton codes; the iteration of the chunk ends.
ChunkApply(k) ==
    /\ pc = "sort"
    /\ chunk_pc[k] = "apply"
    /\ srt_lbs' = IsortApplyChunk(srt_lbs, lbs, k)
    /\ srt_ubs' = IsortApplyChunk(srt_ubs, ubs, k)
    /\ srt_mcodes' = IsortApplyChunk(srt_mcodes, mcodes, k)
    /\ chunk_pc' = [chunk_pc EXCEPT ![k] = "sorted"]
    /\ UNCHANGED <<fn_call, upd, int_error, b_ta_cache, task, aabbVars, sortVars, bvhOnlyVars,
                   nparts, done, pc>>

\* morton_encode_sort and propagate_for return.
PropReturn ==
    /\ pc = "sort"
    /\ \A k \in 0..(NChunks - 1) : chunk_pc[k] = "sorted"
    /\ pc' = "returned"
    /\ UNCHANGED <<fn_call, propVars, aabbVars, sortVars, bvhOnlyVars, nparts, srt_mcodes,
                   srt_lbs, srt_ubs, done>>

\* The driver of the superstep calls construct_bvh_trees_parallel after
\* propagate_for has returned.
BvhCall ==
    /\ pc = "returned"
    /\ pc' = "bvh"
    /\ UNCHANGED <<fn_call, propVars, aabbVars, sortVars, bvhOnlyVars, nparts, srt_mcodes,
                   srt_lbs, srt_ubs, done>>

\* construct_bvh_trees_parallel, chunk k: the tree and the buffers of the
\* chunk are cleared and the root node is inserted; the construction goes
\* on as in SpecBvh.
BvhChunkRoot(k) ==
    /\ pc = "bvh"
    /\ chunk_pc[k] = "sorted"
    /\ tree' = [tree EXCEPT ![k] = [i \in {0} |-> RootNode]]
    /\ nc_buf' = [nc_buf EXCEPT ![k] = <<>>]
    /\ ps_buf' = [ps_buf EXCEPT ![k] = <<>>]
    /\ nplc_buf' = [nplc_buf EXCEPT ![k] = <<>>]
    /\ chunk_pc' = [chunk_pc EXCEPT ![k] = "level"]
    /\ UNCHANGED <<fn_call, upd, int_error, b_ta_cache, task, aabbVars, sortVars, nparts,
                   srt_mcodes, srt_lbs, srt_ubs, cur_n_nodes, nn_next_level,
                   n_leaf_nodes, n_begin, n_end, done, pc>>

PropNext ==
    \/ \E t \in DOMAIN task : TaskAcquire(t)
    \/ \E t \in DOMAIN task : \E time_limit \in BOOLEAN : TaskBatch(t, time_limit)
    \/ \E t \in DOMAIN task : TaskLoopEnd(t)
    \/ \E t \in DOMAIN task : TaskReduce(t)
    \/ \E t \in DOMAIN task : TaskRelease(t)
    \/ \E k \in 0..(NChunks - 1) : VidxInitChunk(k)
    \/ PropJoin
    \/ PropThrow
    \/ PropSort
    \/ \E k \in 0..(NChunks - 1) : ChunkEncode(k)
    \/ \E k \in 0..(NChunks - 1) : ChunkAssertFail(k)
    \/ \E k \in 0..(NChunks - 1) : ChunkSortVidx(k)
    \/ \E k \in 0..(NChunks - 1) : ChunkApply(k)
    \/ PropReturn
    \/ BvhCall
    \/ \E k \in 0..(NChunks - 1) : BvhChunkRoot(k)

\* The state that neither propagate_for nor the start of the BVH
\* construction touches.
PropOthersIdle ==
    /\ fn_call = <<>>
    /\ upd = <<>>
    /\ chunk_idx = 0
    /\ lane_idx = 0
    /\ cur_n_nodes = 0
    /\ nn_next_level = 0
    /\ n_leaf_nodes = 0
    /\ n_begin = 0
    /\ n_end = 0

InitProp == PropInit /\ PropOthersIdle

NextProp == PropNext

SpecProp == InitProp /\ [][NextProp]_vars

-----------------------------------------------------------------------------
(* propagate_for: what holds after the parallel region.                    *)

\* The loop over the batches of invocation t has been left by the break
\* that follows a failed propagation.
Failed(t) == task[t].pc \in {"reduce", "done"} /\ task[t].idx < task[t].rend

\* C12 (as stated, for particle counts that are a multiple of the batch
\* size): when propagate_for calls morton_encode_sort, the global AABB of
\* every chunk k that it loads is the reduction of the per-particle AABBs of
\* the chunk: the minimum of the lower bounds and the maximum of the upper
\* bounds, for each of x, y, z, r.
C12_GlobalIsReduction ==
    s_rem = 0 =>
        \A k \in 0..(NChunks - 1) : \A c \in 1..4 :
            chunk_pc[k] # "load" =>
            /\ global_lb[k][c] = SetMin({lbs[nparts * k + p][c] : p \in 0..(nparts - 1)})
            /\ global_ub[k][c] = SetMax({ubs[nparts * k + p][c] : p \in 0..(nparts - 1)})

\* C14 (as stated): when the parallel region has joined without an
\* integration error, every particle p in 0..nparts-1 has a substep record
\* and, for every chunk k, the AABB stored at [k, p] is the one the kernel
\* computes from that record.
C14_EveryParticleStored ==
    (pc \notin {"invoke", "terminate"} /\ ~int_error) =>
        \A p \in 0..(nparts - 1) :
            /\ s_data[p].tcoords # <<>>
            /\ \A k \in 0..(NChunks - 1) :
                  /\ lbs[nparts * k + p] = KernelLb(s_data[p], k)
                  /\ ubs[nparts * k + p] = KernelUb(s_data[p], k)

\* C16: int_error is set exactly when some invocation has left its loop on a
\* failed propagation; once set it stays set; after the join propagate_for
\* leaves through the throw expression, without calling morton_encode_sort,
\* exactly when it is set, and calls morton_encode_sort otherwise.
C16_ErrorSurfaced ==
    /\ [](int_error <=> \E t \in DOMAIN task : Failed(t))
    /\ [](pc = "terminate" => int_error)
    /\ [](pc \notin {"invoke", "joined", "terminate"} => ~int_error)
    /\ [][int_error => int_error']_vars
    /\ [][pc = "joined" => pc' = (IF int_error THEN "terminate" ELSE "sort")]_vars

C16_Witness ==
    /\ pc = "terminate"
    /\ \E t, u \in DOMAIN task : Failed(t) /\ ~Failed(u)

\* C17 (as stated): once int_error is set, no invocation starts the
\* integration of a further batch.
C17_WorkersStop ==
    [][int_error =>
          ~(\E t \in DOMAIN task : \E time_limit \in BOOLEAN : TaskBatch(t, time_limit))]_vars

\* An integrator is in use by invocation t.
Holds(t) == task[t].pc \in {"loop", "reduce"}

\* The instances in the cache.
Cached == {b_ta_cache[i] : i \in 1..Len(b_ta_cache)}

\* C18: an integrator in use by an invocation is neither in the cache nor in
\* use by another invocation; the cache holds no instance twice; once the
\* parallel region has joined, the instance of every invocation is in the
\* cache, also when the invocation left its loop on a failed propagation.
C18_IntegratorPool ==
    /\ \A t \in DOMAIN task :
          Holds(t) =>
              /\ task[t].ta \notin Cached
              /\ \A u \in DOMAIN task : (u # t /\ Holds(u)) => task[u].ta # task[t].ta
    /\ Cardinality(Cached) = Len(b_ta_cache)
    /\ pc # "invoke" =>
          \A t \in DOMAIN task : task[t].ta \in Cached

C18_Witness ==
    /\ pc = "terminate"
    /\ \E t, u \in DOMAIN task :
          /\ Failed(t)
          /\ task[t].ta = <<"cached", 0>>
          /\ task[u].ta = <<"created", u>>

-----------------------------------------------------------------------------
(* The AABBs that the loop over the chunks and the batch stores.           *)

-----------------------------------------------------------------------------
(* The order of the phases of a superstep and the slices the workers write. *)

\* The sorted arrays of chunk k are complete.
SortedComplete(k) ==
    /\ {vidx[nparts * k + i] : i \in 0..(nparts - 1)} = 0..(nparts - 1)
    /\ \A i \in 0..(nparts - 1) :
          LET q == nparts * k + i
              src == nparts * k + vidx[q]
          IN /\ srt_lbs[q] = lbs[src]
             /\ srt_ubs[q] = ubs[src]
             /\ srt_mcodes[q] = mcodes[src]
    /\ \A i \in 0..(nparts - 2) :
          ~CodeLess(srt_mcodes[nparts * k + i + 1], srt_mcodes[nparts * k + i])

Running ==
    CASE pc = "invoke" ->
            {<<"batch", t>> : t \in {u \in DOMAIN task : task[u].pc # "done"}}
                \cup {<<"vidx", k>> : k \in (0..(NChunks - 1)) \ done}
      [] pc = "sort" ->
            {<<"sort", k>> : k \in {j \in 0..(NChunks - 1) : chunk_pc[j] # "sorted"}}
      [] pc = "bvh" ->
            {<<"bvh", k>> : k \in {j \in 0..(NChunks - 1) : chunk_pc[j] = "sorted"}}
      [] OTHER -> {}

\* The positions of chunk k in a flat per-chunk array.
ChunkSlice(k) == {q \in 0..(nparts * NChunks - 1) : q \div nparts = k}

\* The elements of the non-atomic arrays that belong to a worker.
OwnElements(w) ==
    CASE w[1] = "batch" ->
            LET parts == (w[2] * BatchSize)..(task[w[2]].rend * BatchSize - 1)
                flat == {q \in 0..(nparts * NChunks - 1) : (q % nparts) \in parts}
            IN {<<"s_data", p>> : p \in parts}
                   \cup {<<"lbs", q>> : q \in flat} \cup {<<"ubs", q>> : q \in flat}
      [] w[1] = "vidx" -> {<<"vidx", q>> : q \in ChunkSlice(w[2])}
      [] w[1] = "sort" ->
            {<<"global_lb", w[2]>>, <<"global_ub", w[2]>>}
                \cup {<<a, q>> : a \in {"mcodes", "vidx", "srt_lbs", "srt_ubs", "srt_mcodes"},
                                 q \in ChunkSlice(w[2])}
      [] w[1] = "bvh" ->
            {<<a, w[2]>> : a \in {"tree", "nc_buf", "ps_buf", "nplc_buf"}}

\* The elements of the non-atomic arrays that a step changes.
Written ==
    {<<"s_data", p>> : p \in {x \in DOMAIN s_data : s_data'[x] # s_data[x]}}
        \cup {<<"lbs", q>> : q \in {x \in DOMAIN lbs : lbs'[x] # lbs[x]}}
        \cup {<<"ubs", q>> : q \in {x \in DOMAIN ubs : ubs'[x] # ubs[x]}}
        \cup {<<"vidx", q>> : q \in {x \in DOMAIN vidx : vidx'[x] # vidx[x]}}
        \cup {<<"mcodes", q>> : q \in {x \in DOMAIN mcodes : mcodes'[x] # mcodes[x]}}
        \cup {<<"srt_lbs", q>> : q \in {x \in DOMAIN srt_lbs : srt_lbs'[x] # srt_lbs[x]}}
        \cup {<<"srt_ubs", q>> : q \in {x \in DOMAIN srt_ubs : srt_ubs'[x] # srt_ubs[x]}}
        \cup {<<"srt_mcodes", q>> :
                  q \in {x \in DOMAIN srt_mcodes : srt_mcodes'[x] # srt_mcodes[x]}}
        \cup {<<"global_lb", k>> : k \in {x \in DOMAIN global_lb : global_lb'[x] # global_lb[x]}}
        \cup {<<"global_ub", k>> : k \in {x \in DOMAIN global_ub : global_ub'[x] # global_ub[x]}}
        \cup {<<"tree", k>> : k \in {x \in DOMAIN tree : tree'[x] # tree[x]}}
        \cup {<<"nc_buf", k>> : k \in {x \in DOMAIN nc_buf : nc_buf'[x] # nc_buf[x]}}
        \cup {<<"ps_buf", k>> : k \in {x \in DOMAIN ps_buf : ps_buf'[x] # ps_buf[x]}}
        \cup {<<"nplc_buf", k>> : k \in {x \in DOMAIN nplc_buf : nplc_buf'[x] # nplc_buf[x]}}

\* C20: the workers that can run at the same time own pairwise disjoint sets
\* of elements of the non-atomic arrays (the substep records and AABB entries
\* of an invocation's batches; the slices of a chunk; the tree and buffers of
\* a chunk), and every step changes only elements owned by one running
\* worker; only the global AABB atomics are written by several workers.
C20_DisjointWrites ==
    /\ [](\A w1, w2 \in Running : w1 # w2 => OwnElements(w1) \cap OwnElements(w2) = {})
    /\ [][Written = {} \/ \E w \in Running : Written \subseteq OwnElements(w)]_vars

C20_Witness ==
    /\ pc = "invoke"
    /\ \E t, u \in DOMAIN task :
          /\ t # u
          /\ task[t].pc = "reduce" /\ task[t].chunk_idx = 1 /\ ~Failed(t)
          /\ task[u].pc = "reduce" /\ task[u].chunk_idx = 1 /\ ~Failed(u)
    /\ done # {}
    /\ done # 0..(NChunks - 1)

-----------------------------------------------------------------------------
(* BVH construction: the trees of small chunks.                            *)

\* All sorted Morton codes of the chunk are equal.
AllCodesEqual == \A p \in 0..(nparts - 1) : srt_mcodes[p] = srt_mcodes[0]

\* The completed tree is the root alone, a leaf over all particles whose
\* box is the min/max of the input AABBs.
RootAlone ==
    /\ Size(tree) = 1
    /\ tree[0].begin = 0 /\ tree[0].end = nparts
    /\ tree[0].left = -1 /\ tree[0].right = -1 /\ tree[0].parent = -1
    /\ \A k \in 1..4 :
          /\ tree[0].lb[k] = SetMin({srt_lbs[p][k] : p \in 0..(nparts - 1)})
          /\ tree[0].ub[k] = SetMax({srt_ubs[p][k] : p \in 0..(nparts - 1)})

\* C21 as stated: when all sorted codes of a chunk with P >= 2 are equal,
\* the completed tree is the root alone, a leaf with begin = 0, end = P, no
\* children, lb/ub the min/max of the input AABBs, and split_idx = 64.
C21_EqualCodesSplit64 ==
    (Completed /\ nparts >= 2 /\ AllCodesEqual) => (RootAlone /\ tree[0].split_idx = 64)

\* C21, amended: when all sorted codes of a chunk with P >= 2 are equal, the
\* completed tree is the root alone, a leaf with begin = 0, end = P, no
\* children, lb/ub the min/max of the input AABBs, and split_idx = 63 (the
\* search gives up at the last bit index without bumping it).
C21_EqualCodesRootLeaf ==
    (Completed /\ nparts >= 2 /\ AllCodesEqual) => (RootAlone /\ tree[0].split_idx = 63)

C21_Witness ==
    /\ Completed
    /\ nparts = MaxParts
    /\ AllCodesEqual
    /\ \E p \in 0..(nparts - 1) : srt_lbs[p] # srt_lbs[0]

\* The chunk has three particles with sorted codes A, A, B, A < B.
CodesAAB ==
    /\ nparts = 3
    /\ srt_mcodes[0] = srt_mcodes[1]
    /\ CodeLess(srt_mcodes[1], srt_mcodes[2])

\* The root is internal and split at the first bit in which A and B differ,
\* its left child is a leaf with the two particles of code A, its right
\* child a leaf with the particle of code B.
RootSplitsAAB ==
    /\ tree[0].left # -1 /\ tree[0].right # -1
    /\ tree[0].split_idx = first_diff_bit(srt_mcodes[1], srt_mcodes[2])
    /\ IsLeaf(tree[0].left) /\ IsLeaf(tree[0].right)
    /\ tree[tree[0].left].begin = 0 /\ tree[tree[0].left].end = 2
    /\ tree[tree[0].right].begin = 2 /\ tree[tree[0].right].end = 3

\* C22 as stated: for sorted codes A, A, B with A < B the root is internal
\* and split at the first bit in which A and B differ, its left child is a
\* leaf of size 2 with split_idx = 64 and its right child a leaf of size 1.
C22_LeftLeafSplit64 ==
    (Completed /\ CodesAAB) => (RootSplitsAAB /\ tree[tree[0].left].split_idx = 64)

\* C22, amended: for sorted codes A, A, B with A < B the root is internal and
\* split at the first bit in which A and B differ, its right child is a leaf
\* of size 1, and its left child is a leaf of size 2 whose split_idx is 64
\* when A and B first differ at bit 63 and 63 otherwise.
C22_TwoShareACode ==
    (Completed /\ CodesAAB) =>
        /\ RootSplitsAAB
        /\ tree[tree[0].left].split_idx = (IF tree[0].split_idx = 63 THEN 64 ELSE 63)

C22_Witness ==
    /\ Completed
    /\ CodesAAB
    /\ tree[0].split_idx \in 1..62
    /\ tree[tree[0].left].split_idx = 63

\* C23: for a chunk with two particles whose sorted codes differ, the
\* completed tree has exactly three nodes: the root with begin = 0, end = 2,
\* left = 1, right = 2 and split_idx the first differing bit of the two codes
\* (0 for the codes 0x00..00 and 0xFF..FF), and two leaves with one particle
\* each.
C23_TwoDistinctCodes ==
    (Completed /\ nparts = 2 /\ srt_mcodes[0] # srt_mcodes[1]) =>
        /\ Size(tree) = 3
        /\ tree[0].begin = 0 /\ tree[0].end = 2
        /\ tree[0].left = 1 /\ tree[0].right = 2
        /\ tree[0].split_idx = first_diff_bit(srt_mcodes[0], srt_mcodes[1])
        /\ (srt_mcodes[0] = <<0, 0, 0, 0>> /\ srt_mcodes[1] = <<65535, 65535, 65535, 65535>>)
              => tree[0].split_idx = 0
        /\ IsLeaf(1) /\ tree[1].begin = 0 /\ tree[1].end = 1 /\ tree[1].parent = 0
        /\ IsLeaf(2) /\ tree[2].begin = 1 /\ tree[2].end = 2 /\ tree[2].parent = 0

C23_Witness ==
    /\ Completed
    /\ nparts = 2
    /\ srt_mcodes[0] = <<0, 0, 0, 0>>
    /\ srt_mcodes[1] = <<65535, 65535, 65535, 65535>>
    /\ Size(tree) = 3

-----------------------------------------------------------------------------
(* BVH construction: step 1 of a level.                                    *)

\* The bit at index s flips from 0 to 1 strictly inside the range b..e-1 of
\* the sorted codes.
FlipInside(b, e, s) ==
    \E p \in (b + 1)..(e - 1) : Bit(srt_mcodes[p - 1], s) = 0 /\ Bit(srt_mcodes[p], s) = 1

\* C30: the iteration of step 1 for a node makes it a leaf (no children
\* counted) exactly when its range holds one particle, or its split_idx on
\* entry is > 63, or no bit index from the entry split_idx through 63 flips
\* from 0 to 1 strictly inside its range; otherwise the node is internal (two
\* children counted), its split_idx becomes the smallest bit index >= the
\* entry value with such a flip, and nplc is the number of codes of the range
\* whose bit at that index is 0.
C30_Step1Classification ==
    [][(pc = "step1" /\ done' # done) =>
          \A node_idx \in done' \ done :
              LET cur_node == tree[node_idx]
                  i == node_idx - n_begin
                  flips == {s \in cur_node.split_idx..63 :
                                FlipInside(cur_node.begin, cur_node.end, s)}
                  leaf == \/ cur_node.end - cur_node.begin = 1
                          \/ cur_node.split_idx > 63
                          \/ flips = {}
              IN IF leaf
                 THEN nc_buf'[i] = 0 /\ nplc_buf'[i] = 0
                 ELSE /\ nc_buf'[i] = 2
                      /\ tree'[node_idx].split_idx = SetMin(flips)
                      /\ nplc_buf'[i] =
                            Cardinality({p \in cur_node.begin..(cur_node.end - 1) :
                                            Bit(srt_mcodes[p], SetMin(flips)) = 0})]_vars

C30_Witness ==
    /\ pc = "step1"
    /\ tree[0].left = 1
    /\ tree[0].split_idx \in 17..62
    /\ tree[1].end - tree[1].begin = 2
    /\ 1 \in done
    /\ nc_buf[1 - n_begin] = 0
    /\ tree[1].split_idx = 63

-----------------------------------------------------------------------------
(* BVH construction: the same steps run by one worker, every parallel      *)
(* reduce and for taking its nodes in ascending order.                     *)

\* Step 1 on the nodes node_idx..n_e-1 of a level that starts at n_b.
RECURSIVE SeqStep1(_, _, _, _)
SeqStep1(st, node_idx, n_b, n_e) ==
    IF node_idx >= n_e THEN st
    ELSE LET cur_node == st.tree[node_idx]
             r == ClassifyNode(cur_node)
             i == node_idx - n_b
             nxt == IF r.is_leaf_node
                    THEN [tree |-> [st.tree EXCEPT ![node_idx] =
                                       [cur_node EXCEPT
                                           !.split_idx = r.split_idx,
                                           !.lb = LeafLb(cur_node.lb, cur_node.begin, cur_node.end),
                                           !.ub = LeafUb(cur_node.ub, cur_node.begin, cur_node.end)]],
                          nc |-> [st.nc EXCEPT ![i] = 0],
                          nplc |-> [st.nplc EXCEPT ![i] = 0],
                          n_leaf |-> st.n_leaf + 1]
                    ELSE [tree |-> [st.tree EXCEPT ![node_idx].split_idx = r.split_idx],
                          nc |-> [st.nc EXCEPT ![i] = 2],
                          nplc |-> [st.nplc EXCEPT ![i] = r.split_ptr - cur_node.begin],
                          n_leaf |-> st.n_leaf]
         IN SeqStep1(nxt, node_idx + 1, n_b, n_e)

\* Step 4 on the nodes node_idx..n_e-1 of a level that starts at n_b.
RECURSIVE SeqStep4(_, _, _, _, _, _, _, _)
SeqStep4(tr, nc, ps, nplc, node_idx, n_b, n_e, nn_next) ==
    IF node_idx >= n_e THEN tr
    ELSE LET cur_node == tr[node_idx]
             i == node_idx - n_b
             lc_idx == LcIdx(n_e, ps[i])
             fin == [cur_node EXCEPT !.nn_level = NnLevel(n_e - n_b, nn_next)]
             nxt == IF nc[i] = 0
                    THEN [tr EXCEPT ![node_idx] = fin]
                    ELSE [tr EXCEPT
                             ![node_idx] = [fin EXCEPT !.left = lc_idx, !.right = lc_idx + 1],
                             ![lc_idx] = LeftChild(cur_node, node_idx, nplc[i]),
                             ![lc_idx + 1] = RightChild(cur_node, node_idx, nplc[i])]
         IN SeqStep4(nxt, nc, ps, nplc, node_idx + 1, n_b, n_e, nn_next)

\* The while loop over the levels.
RECURSIVE SeqLevels(_, _)
SeqLevels(tr, n_cur) ==
    IF n_cur = 0 THEN tr
    ELSE LET n_b == Size(tr) - n_cur
             n_e == Size(tr)
             s1 == SeqStep1([tree |-> tr,
                             nc |-> [i \in 0..(n_cur - 1) |-> 0],
                             nplc |-> [i \in 0..(n_cur - 1) |-> 0],
                             n_leaf |-> 0], n_b, n_b, n_e)
             nn_next == n_cur * 2 - s1.n_leaf * 2
             resized == Resize(s1.tree, Size(s1.tree) + nn_next, IndetNode)
             ps == [i \in DOMAIN s1.nc |-> PrefixSum(s1.nc, i)]
         IN SeqLevels(SeqStep4(resized, s1.nc, ps, s1.nplc, n_b, n_b, n_e, nn_next), nn_next)

\* The backward pass on the nodes node_idx..n_e-1 of a level.
RECURSIVE SeqBwdLevel(_, _, _)
SeqBwdLevel(tr, node_idx, n_e) ==
    IF node_idx >= n_e THEN tr
    ELSE LET cur_node == tr[node_idx]
             nxt == IF cur_node.left = -1 THEN tr
                    ELSE [tr EXCEPT ![node_idx] =
                             [cur_node EXCEPT
                                 !.lb = PullUpLb(tr[cur_node.left], tr[cur_node.right]),
                                 !.ub = PullUpUb(tr[cur_node.left], tr[cur_node.right])]]
         IN SeqBwdLevel(nxt, node_idx + 1, n_e)

\* The backward pass from the level n_b..n_e-1 up to the root.
RECURSIVE SeqBwd(_, _, _)
SeqBwd(tr, n_b, n_e) ==
    LET nxt == SeqBwdLevel(tr, n_b, n_e)
    IN IF n_b = 0 THEN nxt
       ELSE SeqBwd(nxt, n_b - nxt[n_b - 1].nn_level, n_b)

\* The tree of the chunk as one worker builds it.
SeqBuild ==
    LET tr == SeqLevels([i \in {0} |-> RootNode], 1)
        last_begin == Size(tr) - tr[Size(tr) - 1].nn_level
    IN IF last_begin = 0 THEN tr
       ELSE SeqBwd(tr, last_begin - tr[last_begin - 1].nn_level, last_begin)

\* C28: the completed tree of a chunk, every field of every node, is the tree
\* that one worker builds from the chunk's sorted codes and sorted AABBs
\* taking the nodes of every level in ascending order, whatever the order in
\* which the iterations of the parallel reduce and for steps were executed.
C28_Deterministic == Completed => tree = SeqBuild

C28_Witness ==
    /\ Completed
    /\ Size(tree) = 5
    /\ tree[1].nn_level = 2
    /\ \E n \in {1, 2} : ~IsLeaf(n)
    /\ \E n \in {1, 2} : tree[0].lb # tree[n].lb

-----------------------------------------------------------------------------
(* AABBs of the particles: the polynomial evaluator.                       *)

\* c[j] + (c[j+1] + (... + c[O] * h ...) * h) * h for the coefficients
\* c[i] = tc[base + i], written from the outermost term inwards.
RECURSIVE NestFrom(_, _, _, _)
NestFrom(tc, base, h, j) ==
    IF j = order THEN ival(tc[base + order], tc[base + order])
    ELSE IvalAdd(ival(tc[base + j], tc[base + j]), IvalMul(NestFrom(tc, base, h, j + 1), h))

\* c[O-j] + (c[O-j-1] + (... + c[0] * h ...) * h) * h: the same nesting with
\* the coefficients taken in the opposite order.
RECURSIVE NestReversedFrom(_, _, _, _)
NestReversedFrom(tc, base, h, j) ==
    IF j = order THEN ival(tc[base], tc[base])
    ELSE IvalAdd(ival(tc[base + order - j], tc[base + order - j]),
                 IvalMul(NestReversedFrom(tc, base, h, j + 1), h))

\* The evaluations of horner_eval that the last iteration of the AABB loop
\* has made: particle p, coordinate c, chunk k, substep it.
Evaluated ==
    {e \in [p : {lane_idx - 1}, c : 1..4, k : {chunk_idx}, it : 0..(MaxSubsteps + 1)] :
        /\ pc = "aabb" /\ lane_idx > 0
        /\ e.it >= ss_it_begin(s_data[e.p].tcoords, e.k)
        /\ e.it < ss_it_end(s_data[e.p].tcoords, e.k)}

\* C24 as stated: horner_eval, given the coefficients c[0..O] of a substep
\* and the interval h, returns c[O] + (c[O-1] + (... + (c[1] + c[0]*h)*h
\* ...)*h)*h, c[0] innermost and c[O] the final additive term.
C24_HornerLowestInnermost ==
    \A e \in Evaluated :
        LET sd == s_data[e.p]
            h == h_int(sd.tcoords, e.it, e.k)
        IN horner_eval(TcOf(sd, e.c), e.it * (order + 1), h)
               = NestReversedFrom(TcOf(sd, e.c), e.it * (order + 1), h, 0)

\* C24, amended: horner_eval, given the coefficients c[0..O] of a substep and
\* the interval h, returns c[0] + (c[1] + (... + (c[O-1] + c[O]*h)*h ...)*h)*h
\* computed with the interval add and multiply operators: c[O] is the
\* innermost coefficient and c[0] the final additive term.
C24_HornerHighestInnermost ==
    \A e \in Evaluated :
        LET sd == s_data[e.p]
            h == h_int(sd.tcoords, e.it, e.k)
        IN horner_eval(TcOf(sd, e.c), e.it * (order + 1), h)
               = NestFrom(TcOf(sd, e.c), e.it * (order + 1), h, 0)

C24_Witness ==
    \E e \in Evaluated :
        LET sd == s_data[e.p]
            h == h_int(sd.tcoords, e.it, e.k)
            base == e.it * (order + 1)
        IN /\ e.it >= 1
           /\ h.lower > 0
           /\ TcOf(sd, e.c)[base] # TcOf(sd, e.c)[base + order]
           /\ horner_eval(TcOf(sd, e.c), base, h)
                  # NestReversedFrom(TcOf(sd, e.c), base, h, 0)

-----------------------------------------------------------------------------
(* Calls of the helper functions of sim_propagate.cpp on their own.        *)

\* Intervals with lower <= upper that are multiplied.
IvalArgs == {iv \in [lower : -3..4, upper : -3..4] : iv.lower <= iv.upper}

\* Coordinates and bounds handed to disc_single_coord, finite and not.
DiscXs == -6..14
DiscBounds == {-4, 0, 2, 3, 10, finf, -finf}

\* 16-bit values handed to the Morton encoder.
EncodeArgs == {0, 1, 2, 4660, 32768, 65535}

CallInit ==
    \/ fn_call \in [fn : {"ival_mul"}, a : IvalArgs, b : IvalArgs, pc : {"call"}]
    \/ fn_call \in [fn : {"disc_single_coord"}, x : DiscXs, min : DiscBounds,
                    max : DiscBounds, pc : {"call"}]
    \/ fn_call \in [fn : {"Encode"}, n0 : EncodeArgs, n1 : EncodeArgs, n2 : EncodeArgs,
                    n3 : EncodeArgs, pc : {"call"}]

\* operator*(ival, ival) returns.
IvalMulCall ==
    /\ fn_call.pc = "call"
    /\ fn_call.fn = "ival_mul"
    /\ fn_call' = [fn |-> "ival_mul", a |-> fn_call.a, b |-> fn_call.b, pc |-> "ret",
                   ret |-> IvalMul(fn_call.a, fn_call.b)]
    /\ UNCHANGED <<propVars, aabbVars, sortVars, bvhVars>>

\* disc_single_coord returns.
DiscCall ==
    /\ fn_call.pc = "call"
    /\ fn_call.fn = "disc_single_coord"
    /\ \E retval \in disc_single_coord(fn_call.x, fn_call.min, fn_call.max) :
          fn_call' = [fn |-> "disc_single_coord", x |-> fn_call.x, min |-> fn_call.min,
                      max |-> fn_call.max, pc |-> "ret", ret |-> retval]
    /\ UNCHANGED <<propVars, aabbVars, sortVars, bvhVars>>

\* Build with assertions: an assertion of disc_single_coord fails.
DiscCallAssertFail ==
    /\ fn_call.pc = "call"
    /\ fn_call.fn = "disc_single_coord"
    /\ ~DiscPrecondition(fn_call.x, fn_call.min, fn_call.max)
    /\ fn_call' = [fn_call EXCEPT !.pc = "abort"]
    /\ UNCHANGED <<propVars, aabbVars, sortVars, bvhVars>>

\* Mutant of EncodeCall: the first two bins are passed in swapped order.
EncodeCallSwapped ==
    /\ fn_call.pc = "call"
    /\ fn_call.fn = "Encode"
    /\ fn_call' = [fn |-> "Encode", n0 |-> fn_call.n0, n1 |-> fn_call.n1, n2 |-> fn_call.n2,
                   n3 |-> fn_call.n3, pc |-> "ret",
                   ret |-> MortonEncode(fn_call.n1, fn_call.n0, fn_call.n2, fn_call.n3)]
    /\ UNCHANGED <<propVars, aabbVars, sortVars, bvhVars>>

\* morton_enc.Encode returns.
EncodeCall ==
    /\ fn_call.pc = "call"
    /\ fn_call.fn = "Encode"
    /\ fn_call' = [fn |-> "Encode", n0 |-> fn_call.n0, n1 |-> fn_call.n1, n2 |-> fn_call.n2,
                   n3 |-> fn_call.n3, pc |-> "ret",
                   ret |-> MortonEncode(fn_call.n0, fn_call.n1, fn_call.n2, fn_call.n3)]
    /\ UNCHANGED <<propVars, aabbVars, sortVars, bvhVars>>

CallNext ==
    \/ IvalMulCall
    \/ DiscCall
    \/ DiscCallAssertFail
    \/ EncodeCall

\* Nothing else runs; the build's conversion of +inf is any of its outcomes.
CallOthersIdle ==
    /\ upd = <<>>
    /\ int_error = FALSE
    /\ b_ta_cache = <<>>
    /\ task = <<>>
    /\ chunk_pc = <<>>
    /\ s_data = <<>>
    /\ chunk_idx = 0
    /\ lane_idx = 0
    /\ lbs = <<>>
    /\ ubs = <<>>
    /\ global_lb_atomic = default_lb
    /\ global_ub_atomic = default_ub
    /\ global_lb = default_lb
    /\ global_ub = default_ub
    /\ mcodes = <<>>
    /\ vidx = <<>>
    /\ cast_inf \in CastInfOutcomes
    /\ nparts = 0
    /\ srt_mcodes = <<>>
    /\ srt_lbs = <<>>
    /\ srt_ubs = <<>>
    /\ done = {}
    /\ pc = "call"

InitCall == CallInit /\ CallOthersIdle /\ BvhIdle

NextCall == CallNext

SpecCall == InitCall /\ [][NextCall]_vars

\* The call of function f has returned.
HasReturned(f) == fn_call.fn = f /\ fn_call.pc = "ret"

\* C25: operator* on a = [al, au] and b = [bl, bu] with al <= au, bl <= bu
\* returns [min, max] of the four endpoint products, so the result has lower
\* <= upper and contains x * y for every x in a and y in b; [-1, 2] * [-3, 4]
\* is [-6, 8].
C25_IvalMul ==
    HasReturned("ival_mul") =>
        LET a == fn_call.a
            b == fn_call.b
            ret == fn_call.ret
            prods == {a.lower * b.lower, a.lower * b.upper, a.upper * b.lower, a.upper * b.upper}
        IN /\ ret.lower = SetMin(prods)
           /\ ret.upper = SetMax(prods)
           /\ ret.lower <= ret.upper
           /\ \A x \in a.lower..a.upper : \A y \in b.lower..b.upper :
                 ret.lower <= x * y /\ x * y <= ret.upper
           /\ (a = ival(-1, 2) /\ b = ival(-3, 4)) => ret = ival(-6, 8)

C25_Witness ==
    /\ HasReturned("ival_mul")
    /\ fn_call.a = ival(-1, 2)
    /\ fn_call.b = ival(-3, 4)
    /\ fn_call.ret = ival(-6, 8)

CodeBit(mcode, b) == Bit(mcode, 63 - b)

\* Bit i of a 16-bit value counted from the LSB.
BinBit(n, i) == (n \div Pow2(i)) % 2

\* The 16-bit value whose bit i is bit 4 * i + j of the code.
RECURSIVE Deinterleave(_, _, _)
Deinterleave(mcode, j, i) ==
    IF i > 15 THEN 0
    ELSE CodeBit(mcode, 4 * i + j) * Pow2(i) + Deinterleave(mcode, j, i + 1)

\* C27: the code that Encode(n0, n1, n2, n3) returns for the four 16-bit
\* bins of x, y, z, r has, at bit 4 * i + j counted from the LSB, bit i of
\* input j, for every i in 0..15 and j in 0..3; as these are all 64 bits, no
\* other bit is set and the four inputs are recovered from the code.
C27_MortonInterleave ==
    HasReturned("Encode") =>
        LET n == <<fn_call.n0, fn_call.n1, fn_call.n2, fn_call.n3>>
        IN /\ \A i \in 0..15 : \A j \in 0..3 :
                 CodeBit(fn_call.ret, 4 * i + j) = BinBit(n[j + 1], i)
           /\ \A j \in 0..3 : Deinterleave(fn_call.ret, j, 0) = n[j + 1]
           /\ \A q \in 1..4 : fn_call.ret[q] \in 0..(Pow2(16) - 1)

C27_Witness ==
    /\ HasReturned("Encode")
    /\ fn_call.n0 = 1 /\ fn_call.n1 = 0 /\ fn_call.n2 = 32768 /\ fn_call.n3 = 4660
    /\ fn_call.ret[4] = 2049
    /\ fn_call.ret[1] = 16392

\* The outputs of propagate_for for particle p and for element q of the
\* per-chunk arrays when it runs on value-initialised arrays and no
\* propagation fails.
FirstCallRecord(p) == IF p < n_batches * BatchSize THEN BatchRecord(p) ELSE EmptyRecord

FirstCallLb(q) ==
    IF InChunk(q) < n_batches * BatchSize
    THEN KernelLb(BatchRecord(InChunk(q)), ChunkOf(q)) ELSE <<0, 0, 0, 0>>

FirstCallUb(q) ==
    IF InChunk(q) < n_batches * BatchSize
    THEN KernelUb(BatchRecord(InChunk(q)), ChunkOf(q)) ELSE <<0, 0, 0, 0>>

\* propagate_for has returned and construct_bvh_trees_parallel has inserted
\* the root node of every chunk.
SuperstepOutputs == pc = "bvh" /\ \A k \in 0..(NChunks - 1) : chunk_pc[k] = "level"

-----------------------------------------------------------------------------
(* Growth of the tree and set-up of the new nodes.                         *)

\* The slots added by the resize of the level.
NewSlots == n_end..(Size(tree) - 1)

\* The internal nodes of the level.
LevelInternals == {k \in n_begin..(n_end - 1) : nc_buf[k - n_begin] # 0}

\* The slots step 4 writes for the internal node k of the level.
ChildSlots(k) ==
    {LcIdx(n_end, ps_buf[k - n_begin]), LcIdx(n_end, ps_buf[k - n_begin]) + 1}

\* No field of the node holds the indeterminate value left by resize().
Determinate(node) == \A f \in DOMAIN IndetNode : node[f] # IndetNode[f]

\* C31: the resize of a level adds nn_next = 2 * cur_n_nodes - 2 * L
\* indeterminate nodes, L the number of leaves of the level; in step 4
\* distinct internal nodes of the level have disjoint pairs of child slots
\* (lc_idx, lc_idx + 1), lc_idx = cur_tree_size + ps - 2, and the pairs
\* cover the new slots; an iteration of step 4 writes child slots that
\* are new and that no iteration has written before; and at the
\* classification of the next level no node has an indeterminate field.
C31_NewSlotsSetOnce ==
    /\ [][(pc = "step1" /\ pc' = "step3") =>
             /\ Size(tree') = Size(tree) + 2 * cur_n_nodes - 2 * n_leaf_nodes
             /\ \A k \in Size(tree)..(Size(tree') - 1) : tree'[k] = IndetNode]_vars
    /\ [](pc = "step4" =>
             /\ \A k, l \in LevelInternals : k # l => ChildSlots(k) \cap ChildSlots(l) = {}
             /\ UNION {ChildSlots(k) : k \in LevelInternals} = NewSlots)
    /\ [][(pc = "step4" /\ done' # done) =>
             \A k \in (done' \ done) \cap LevelInternals :
                 /\ ChildSlots(k) \subseteq NewSlots
                 /\ \A c \in ChildSlots(k) : tree[c] = IndetNode /\ Determinate(tree'[c])
                 /\ \A c \in DOMAIN tree' \ (ChildSlots(k) \cup {k}) :
                       c \in DOMAIN tree /\ tree'[c] = tree[c]]_vars
    /\ [](pc \in {"level", "step1"} => \A k \in DOMAIN tree : Determinate(tree[k]))

\* Step 4 of a level with two internal nodes: the first has set up its
\* children, the children of the second are still indeterminate.
C31_Witness ==
    /\ pc = "step4"
    /\ Cardinality(LevelInternals) = 2
    /\ \E k \in LevelInternals \cap done : \A c \in ChildSlots(k) : Determinate(tree[c])
    /\ \E l \in LevelInternals \ done : \A c \in ChildSlots(l) : tree[c] = IndetNode

-----------------------------------------------------------------------------
(* The order of the backward pass.                                         *)

\* The nodes the forward pass created in its level d, the root being level 0.
LevelNodes(d) == {n \in DOMAIN tree : Depth(n) = d}

\* The last level of the tree.
Height == SetMax({Depth(n) : n \in DOMAIN tree})

\* The range of nodes of the running parallel region.
CurRange == n_begin..(n_end - 1)

\* The box of node n is the box of the particles of its range.
BoxFinal(n) ==
    /\ tree[n].lb = LeafLb(default_lb, tree[n].begin, tree[n].end)
    /\ tree[n].ub = LeafUb(default_ub, tree[n].begin, tree[n].end)

\* C32: the backward pass starts on the penultimate level of the forward
\* pass, moves from a level to the level just above it, each range being
\* computed from the nn_level of the node just before the current range, and
\* ends on the range [0, 1); when the box of an internal node is set, the
\* boxes of its two children have their final value.
C32_BackwardPassOrder ==
    /\ [][(pc = "level" /\ pc' = "bwd") =>
             /\ Height >= 1
             /\ n_begin'..(n_end' - 1) = LevelNodes(Height - 1)]_vars
    /\ [][(pc = "level" /\ pc' = "done") => Height = 0]_vars
    /\ [](pc = "bwd" => \E d \in 0..(Height - 1) : CurRange = LevelNodes(d))
    /\ [][(pc = "bwd" /\ pc' = "bwd" /\ n_begin' # n_begin) =>
             /\ n_begin' = n_begin - tree[n_begin - 1].nn_level
             /\ \E d \in 1..Height :
                   /\ CurRange = LevelNodes(d)
                   /\ n_begin'..(n_end' - 1) = LevelNodes(d - 1)]_vars
    /\ [][(pc = "bwd" /\ pc' = "done") => n_begin = 0 /\ n_end = 1]_vars
    /\ [][(pc = "bwd" /\ done' # done) =>
             \A k \in done' \ done :
                 tree[k].left # -1 =>
                     /\ BoxFinal(tree[k].left)'
                     /\ BoxFinal(tree[k].right)'
                     /\ tree[k].left \notin CurRange /\ tree[k].right \notin CurRange
                     /\ BoxFinal(k)']_vars

\* The pass has reached the root of a tree of three levels and has set its
\* box from two children, one of them internal.
C32_Witness ==
    /\ pc = "bwd"
    /\ Height >= 2
    /\ n_begin = 0 /\ n_end = 1 /\ 0 \in done
    /\ \E c \in {tree[0].left, tree[0].right} : tree[c].left # -1
    /\ tree[0].lb # tree[tree[0].left].lb

-----------------------------------------------------------------------------
(* The substeps the AABB loop iterates over.                               *)

\* The substeps of the record with end times tc that the loop over the
\* substeps visits for chunk k.
Iterated(tc, k) == {it \in DOMAIN tc : ss_it_begin(tc, k) <= it /\ it < ss_it_end(tc, k)}

\* The substeps from the first one ending after the begin of chunk k to the
\* first one ending at or after the end of the chunk, or to the last one
\* when no substep reaches the end of the chunk.
Overlapping(tc, k) ==
    LET after == {j \in DOMAIN tc : tc[j] > chunk_begin(k)}
        reach == {j \in after : tc[j] >= chunk_end(k)}
    IN IF after = {} THEN {}
       ELSE SetMin(after)..(IF reach = {} THEN Size(tc) - 1 ELSE SetMin(reach))

\* The lane and the chunk of the last iteration of the loop over the batch.
LastLane == lane_idx - 1

\* C33: for every chunk and lane the loop over the substeps visits exactly
\* the substeps from the first one whose end time is greater than c_begin
\* to the first one whose end time is at least c_end, or to the last one
\* when none reaches c_end; a substep ending at c_begin is not visited, a
\* substep ending at c_end is the last one visited, and every evaluation
\* interval has 0 <= h_lo <= h_hi <= the length of its substep.
C33_SubstepRange ==
    (pc = "aabb" /\ lane_idx > 0) =>
        LET tc == s_data[LastLane].tcoords
            k == chunk_idx
        IN /\ Iterated(tc, k) = Overlapping(tc, k)
           /\ \A j \in DOMAIN tc :
                 /\ tc[j] = chunk_begin(k) => j \notin Iterated(tc, k)
                 /\ tc[j] = chunk_end(k) => j = SetMax(Iterated(tc, k))
           /\ \A it \in Iterated(tc, k) :
                 LET h == h_int(tc, it, k)
                 IN /\ 0 <= h.lower
                    /\ h.lower <= h.upper
                    /\ h.upper <= tc[it] - ss_start(tc, it)

\* The particle of the last iteration has a substep that ends at the begin
\* of the chunk, one inside the chunk and one that ends at its end.
C33_Witness ==
    /\ pc = "aabb" /\ lane_idx > 0
    /\ LET tc == s_data[LastLane].tcoords
       IN /\ \E j \in DOMAIN tc : tc[j] = chunk_begin(chunk_idx)
          /\ \E j \in DOMAIN tc : tc[j] = chunk_end(chunk_idx)
          /\ Cardinality(Iterated(tc, chunk_idx)) = 2

\* The record of the particle falls short of the end of the last chunk.
RecordFallsShort ==
    /\ pc = "aabb" /\ lane_idx > 0
    /\ LET tc == s_data[LastLane].tcoords
       IN /\ \A j \in DOMAIN tc : tc[j] < chunk_end(chunk_idx)
          /\ Iterated(tc, chunk_idx) # {}

-----------------------------------------------------------------------------
(* The integration of the batches of one range by batch_int_aabb: the set   *)
(* up of the integrator, its steps with the step callback, the check of the *)
(* outcomes.                                                                *)

\* m_data->time at the start of the superstep, in the model's time unit.
init_time == 3

\* The lanes of the batch integrator.
Lanes == 0..(BatchSize - 1)

\* isfinite() of a time or of a coordinate.
IsFinite(x) == x # finf /\ x # -finf

\* m_x, m_y, m_z, m_vx, m_vy, m_vz, m_r (v = 0 .. 6) of particle p.
ParticleState(v, p) == 10 * (v + 1) + p

\* The Taylor coefficient of power o that the integrator computes in a step
\* for the state variable v of a lane that follows the polynomials f.
StepCoeff(v, f, o) ==
    CASE v = 0 -> PolyCoeff(f, o)
      [] v = 1 -> -PolyCoeff(f, o)
      [] v = 2 -> PolyCoeff((f % 3) + 1, o)
      [] v = 6 -> IF o = 0 THEN 7 ELSE 0
      [] OTHER -> 50 + v

\* get_tc() after a step in which lane j follows the polynomials fs[j]: the
\* coefficient of the state variable v, power o and lane j is at
\* v * (order + 1) * batch_size + o * batch_size + j.
TaTc(fs) ==
    [a \in 0..(7 * (order + 1) * BatchSize - 1) |->
        StepCoeff(a \div ((order + 1) * BatchSize),
                  fs[a % BatchSize],
                  (a % ((order + 1) * BatchSize)) \div BatchSize)]

\* An instance copied from m_data->b_ta, and an instance that has run a
\* batch of an earlier superstep.
NewInstance ==
    [time |-> [i \in Lanes |-> 0], st |-> [a \in 0..(7 * BatchSize - 1) |-> 0],
     cooldowns |-> "reset", last_h |-> [i \in Lanes |-> 0],
     tc |-> [a \in 0..(7 * (order + 1) * BatchSize - 1) |-> 0],
     res |-> [i \in Lanes |-> "success"], steps |-> 0]

UsedInstance ==
    [time |-> [i \in Lanes |-> 1], st |-> [a \in 0..(7 * BatchSize - 1) |-> 99],
     cooldowns |-> "running", last_h |-> [i \in Lanes |-> 0],
     tc |-> TaTc([i \in Lanes |-> 1]),
     res |-> [i \in Lanes |-> "time_limit"], steps |-> 1]

\* Mutant of CopyState: the state of the first batch is copied.
CopyStateFirstBatch(pidx_begin) ==
    [a \in 0..(7 * BatchSize - 1) |-> ParticleState(a \div BatchSize, a % BatchSize)]

\* The seven std::copy into st_data: variable v of the particles of the
\* batch at st_data + v * batch_size.
CopyState(pidx_begin) ==
    [a \in 0..(7 * BatchSize - 1) |->
        ParticleState(a \div BatchSize, pidx_begin + (a % BatchSize))]

\* Mutant of PushCoeffs: the loop runs over o < order.
PushCoeffsBelowOrder(vec, tc, v, i) ==
    [j \in 0..(Size(vec) + order - 1) |->
        IF j < Size(vec) THEN vec[j]
        ELSE tc[v * (order + 1) * BatchSize + (j - Size(vec)) * BatchSize + i]]

\* The push_back of the coefficients o = 0 .. order of the state variable
\* v of lane i onto vec.
PushCoeffs(vec, tc, v, i) ==
    [j \in 0..(Size(vec) + order) |->
        IF j < Size(vec) THEN vec[j]
        ELSE tc[v * (order + 1) * BatchSize + (j - Size(vec)) * BatchSize + i]]

\* tcoords.push_back(time_f - init_time).
PushTime(vec, time_f) ==
    [j \in 0..Size(vec) |->
        IF j < Size(vec) THEN vec[j]
        ELSE IF IsFinite(time_f) THEN time_f - init_time ELSE time_f]

\* The callback cb from lane i on, called on the integrator ta with the
\* records sd: the records it leaves and the value it returns.
RECURSIVE Cb(_, _, _, _)
Cb(sd, ta, pidx_begin, i) ==
    IF i = BatchSize THEN [s_data |-> sd, ret |-> TRUE]
    ELSE IF ta.last_h[i] = 0 THEN Cb(sd, ta, pidx_begin, i + 1)
    ELSE LET p == pidx_begin + i
             timed == [sd EXCEPT ![p].tcoords = PushTime(@, ta.time[i])]
         IN IF ~IsFinite(timed[p].tcoords[Size(timed[p].tcoords) - 1])
            THEN [s_data |-> timed, ret |-> FALSE]
            ELSE Cb([timed EXCEPT ![p].tc_x = PushCoeffs(@, ta.tc, 0, i),
                                  ![p].tc_y = PushCoeffs(@, ta.tc, 1, i),
                                  ![p].tc_z = PushCoeffs(@, ta.tc, 2, i),
                                  ![p].tc_r = PushCoeffs(@, ta.tc, 6, i)],
                    ta, pidx_begin, i + 1)

\* The time at which the propagation of a lane ends.
final_time == init_time + delta_t

\* The step sizes the integrator can take on a lane at time tm: none once
\* the lane has reached the final time, a chunk or the rest otherwise.
LaneSteps(tm) ==
    IF tm = final_time THEN {0} ELSE {Min(chunk_size, final_time - tm), final_time - tm}

\* One invocation of batch_int_aabb that runs two batches with an instance
\* fetched from the cache or created, with events or without; the arrays
\* are value-initialised or hold what an earlier superstep has left.
IntInit ==
    /\ nparts = 2 * BatchSize
    /\ \E inst \in {NewInstance, UsedInstance} : \E we \in BOOLEAN :
          task = [t \in {0} |->
                     [rend |-> 2, pc |-> "loop", idx |-> 0, ta |-> inst, chunk_idx |-> 0,
                      with_events |-> we]]
    /\ \E first_call \in BOOLEAN :
          /\ s_data = [p \in 0..(nparts - 1) |->
                          IF first_call THEN EmptyRecord ELSE LeftRecord]
          /\ lbs = [q \in 0..(nparts * NChunks - 1) |->
                       IF first_call THEN <<0, 0, 0, 0>> ELSE LeftLb]
          /\ ubs = [q \in 0..(nparts * NChunks - 1) |->
                       IF first_call THEN <<0, 0, 0, 0>> ELSE LeftUb]
    /\ int_error = FALSE
    /\ b_ta_cache = <<>>
    /\ pc = "invoke"

\* The loop over the batches, before the propagation: the records of the
\* batch are cleared, the cooldowns are reset, the time is set and the state
\* of the particles of the batch is copied over.
IntSetup(t) ==
    /\ pc = "invoke"
    /\ task[t].pc = "loop"
    /\ task[t].idx < task[t].rend
    /\ s_data' = [p \in 0..(nparts - 1) |->
                     IF p \in BatchParts(task[t].idx) THEN EmptyRecord ELSE s_data[p]]
    /\ task' = [task EXCEPT
                   ![t].pc = "integrate",
                   ![t].ta = [@ EXCEPT
                                 !.cooldowns = IF task[t].with_events THEN "reset" ELSE @,
                                 !.time = [i \in Lanes |-> init_time],
                                 !.st = CopyState(task[t].idx * BatchSize),
                                 !.steps = 0]]
    /\ UNCHANGED <<fn_call, upd, int_error, b_ta_cache, chunk_pc, chunk_idx, lane_idx, lbs, ubs,
                   global_lb_atomic, global_ub_atomic, global_lb, global_ub, mcodes,
                   vidx, cast_inf, bvhVars>>

\* ta.propagate_for: the integrator takes a step on every lane and calls the
\* callback; the propagation ends with cb_stop when the callback returns
\* false and with time_limit when every lane has reached the final time.
IntStep(t) ==
    /\ pc = "invoke"
    /\ task[t].pc = "integrate"
    /\ task[t].ta.steps < MaxSubsteps
    /\ \E h \in [Lanes -> 0..delta_t] : \E nf \in SUBSET Lanes :
          /\ \A i \in Lanes : h[i] \in LaneSteps(task[t].ta.time[i])
          /\ \A i \in nf : h[i] # 0
          /\ Cardinality(nf) <= 1
          /\ LET ta == task[t].ta
                 stepped == [ta EXCEPT
                                !.time = [i \in Lanes |->
                                             IF i \in nf THEN finf ELSE ta.time[i] + h[i]],
                                !.last_h = h,
                                !.tc = TaTc([i \in Lanes |-> ((i + ta.steps) % 3) + 1]),
                                !.cooldowns = "running",
                                !.steps = ta.steps + 1]
                 cb == Cb(s_data, stepped, task[t].idx * BatchSize, 0)
                 at_limit == \A i \in Lanes : stepped.time[i] = final_time
             IN /\ s_data' = cb.s_data
                /\ task' = [task EXCEPT
                               ![t].pc = IF ~cb.ret \/ at_limit THEN "check" ELSE "integrate",
                               ![t].ta = [stepped EXCEPT
                                             !.res = [i \in Lanes |->
                                                         IF ~cb.ret THEN "cb_stop"
                                                         ELSE IF at_limit THEN "time_limit"
                                                         ELSE "success"]]]
    /\ UNCHANGED <<fn_call, upd, int_error, b_ta_cache, chunk_pc, chunk_idx, lane_idx, lbs, ubs,
                   global_lb_atomic, global_ub_atomic, global_lb, global_ub, mcodes,
                   vidx, cast_inf, bvhVars>>

\* ta.propagate_for: the integrator itself ends the propagation of a lane
\* with an error outcome.
IntFail(t) ==
    /\ pc = "invoke"
    /\ task[t].pc = "integrate"
    /\ \E bad \in Lanes :
          task' = [task EXCEPT
                      ![t].pc = "check",
                      ![t].ta.res = [i \in Lanes |->
                                        IF i = bad THEN "err_nf_state" ELSE "time_limit"]]
    /\ UNCHANGED <<fn_call, upd, int_error, b_ta_cache, chunk_pc, aabbVars, sortVars, bvhVars>>

\* The check of the outcomes: an outcome other than time_limit sets
\* int_error and leaves the loop over the batches; otherwise the AABBs of
\* the particles of the batch are computed for every chunk.
IntCheck(t) ==
    /\ pc = "invoke"
    /\ task[t].pc = "check"
    /\ LET failed == \E i \in Lanes : task[t].ta.res[i] # "time_limit"
           batch == BatchParts(task[t].idx)
       IN /\ int_error' = ErrorFlag(int_error, failed)
          /\ lbs' = [q \in 0..(nparts * NChunks - 1) |->
                        IF ~failed /\ (q % nparts) \in batch
                        THEN KernelLb(s_data[q % nparts], q \div nparts) ELSE lbs[q]]
          /\ ubs' = [q \in 0..(nparts * NChunks - 1) |->
                        IF ~failed /\ (q % nparts) \in batch
                        THEN KernelUb(s_data[q % nparts], q \div nparts) ELSE ubs[q]]
          /\ task' = IF failed
                     THEN [task EXCEPT ![t].pc = "reduce"]
                     ELSE [task EXCEPT ![t].pc = "loop", ![t].idx = task[t].idx + 1]
    /\ UNCHANGED <<fn_call, upd, b_ta_cache, chunk_pc, aabbVars, global_lb_atomic,
                   global_ub_atomic, global_lb, global_ub, mcodes, vidx, cast_inf,
                   bvhVars>>

IntNext ==
    \/ \E t \in DOMAIN task : IntSetup(t)
    \/ \E t \in DOMAIN task : IntStep(t)
    \/ \E t \in DOMAIN task : IntFail(t)
    \/ \E t \in DOMAIN task : IntCheck(t)
    \/ \E t \in DOMAIN task : TaskLoopEnd(t)

\* What the integration of the batches does not touch.
IntOthersIdle ==
    /\ fn_call = <<>>
    /\ upd = <<>>
    /\ chunk_pc = <<>>
    /\ chunk_idx = 0
    /\ lane_idx = 0
    /\ global_lb_atomic = default_lb
    /\ global_ub_atomic = default_ub
    /\ global_lb = default_lb
    /\ global_ub = default_ub
    /\ mcodes = <<>>
    /\ vidx = <<>>
    /\ cast_inf \in CastInfOutcomes
    /\ srt_mcodes = <<>>
    /\ srt_lbs = <<>>
    /\ srt_ubs = <<>>
    /\ done = {}

InitInt == IntInit /\ IntOthersIdle /\ BvhIdle

NextInt == IntNext

SpecInt == InitInt /\ [][NextInt]_vars

\* The particle of lane i of the batch that task t is propagating.
LaneParticle(t, i) == task[t].idx * BatchSize + i

\* The vector vec with the elements of the sequence tail appended.
Appended(vec, tail) ==
    [j \in 0..(Size(vec) + Len(tail) - 1) |->
        IF j < Size(vec) THEN vec[j] ELSE tail[j - Size(vec) + 1]]

\* The coefficients of powers 0 .. order of the state variable v that the
\* step number n of the propagation computes for lane i.
StepCoeffs(v, i, n) == [o \in 1..(order + 1) |-> StepCoeff(v, ((i + n) % 3) + 1, o - 1)]

\* Task t is propagating a batch, or has propagated it, and every call of
\* the callback has returned true.
NoStop(t) ==
    /\ task[t].pc \in {"integrate", "check"}
    /\ \A i \in Lanes : task[t].ta.res[i] # "cb_stop"

\* C34: while the callbacks of a batch have all returned true, the record of
\* every lane holds order + 1 coefficients in each of tc_x, tc_y, tc_z, tc_r
\* per recorded end time; a step appends to the record of a lane with a
\* non-zero step size its end time relative to the start of the superstep
\* and the order + 1 coefficients of x, y, z, r of the step, and leaves the
\* record of a lane with a zero step size as it is. When a recorded time is
\* not finite the propagation ends with an outcome other than time_limit;
\* such a batch sets int_error and no AABB is written.
C34_CallbackRecords ==
    /\ [](\A t \in DOMAIN task : NoStop(t) =>
             \A i \in Lanes :
                 LET sd == s_data[LaneParticle(t, i)]
                 IN /\ \A j \in DOMAIN sd.tcoords : IsFinite(sd.tcoords[j])
                    /\ \A c \in 1..4 : Size(TcOf(sd, c)) = (order + 1) * Size(sd.tcoords))
    /\ [][\A t \in DOMAIN task :
             (task[t].pc = "integrate" /\ task'[t].ta.steps # task[t].ta.steps /\ NoStop(t)') =>
                 \A i \in Lanes :
                     LET p == LaneParticle(t, i)
                         n == task[t].ta.steps
                     IN IF task'[t].ta.last_h[i] = 0
                        THEN s_data'[p] = s_data[p]
                        ELSE /\ s_data'[p].tcoords =
                                    Appended(s_data[p].tcoords,
                                             <<task'[t].ta.time[i] - init_time>>)
                             /\ s_data'[p].tc_x = Appended(s_data[p].tc_x, StepCoeffs(0, i, n))
                             /\ s_data'[p].tc_y = Appended(s_data[p].tc_y, StepCoeffs(1, i, n))
                             /\ s_data'[p].tc_z = Appended(s_data[p].tc_z, StepCoeffs(2, i, n))
                             /\ s_data'[p].tc_r = Appended(s_data[p].tc_r, StepCoeffs(6, i, n))]_vars
    /\ [][\A t \in DOMAIN task :
             (task[t].pc = "integrate" /\
              \E i \in Lanes : \E j \in DOMAIN s_data'[LaneParticle(t, i)].tcoords :
                  ~IsFinite(s_data'[LaneParticle(t, i)].tcoords[j])) =>
                 /\ task'[t].pc = "check"
                 /\ \E i \in Lanes : task'[t].ta.res[i] # "time_limit"]_vars
    /\ [][\A t \in DOMAIN task :
             (task[t].pc = "check" /\ task'[t].pc # "check" /\
              \E i \in Lanes : task[t].ta.res[i] # "time_limit") =>
                 /\ int_error'
                 /\ lbs' = lbs /\ ubs' = ubs
                 /\ task'[t].pc = "reduce"]_vars

\* The callback has stopped the second step of a propagation: lane 0 took a
\* zero step and kept its record of one substep, lane 1 has a second time,
\* which is not finite, and the coefficients of one substep.
C34_Witness ==
    /\ 0 \in DOMAIN task
    /\ task[0].pc = "check"
    /\ task[0].ta.steps = 2
    /\ task[0].ta.res[0] = "cb_stop"
    /\ task[0].ta.last_h[0] = 0
    /\ Size(s_data[LaneParticle(0, 0)].tcoords) = 1
    /\ Size(s_data[LaneParticle(0, 0)].tc_r) = order + 1
    /\ Size(s_data[LaneParticle(0, 1)].tcoords) = 2
    /\ ~IsFinite(s_data[LaneParticle(0, 1)].tcoords[1])
    /\ Size(s_data[LaneParticle(0, 1)].tc_x) = order + 1

\* Task t is about to call ta.propagate_for on a batch.
BeforePropagation(t) == task[t].pc = "integrate" /\ task[t].ta.steps = 0

\* C35: just before a batch is propagated, whatever the integrator instance
\* has run before, the substep records of the particles of the batch are
\* empty, the time of every lane of the integrator is the start time of the
\* superstep, the state buffer holds x, y, z, vx, vy, vz, r of the particles
\* of the batch, variable by variable, and the cooldowns have been reset if
\* the simulation has events.
C35_BatchSetup ==
    \A t \in DOMAIN task :
        BeforePropagation(t) =>
            /\ \A i \in Lanes :
                  /\ s_data[LaneParticle(t, i)] = EmptyRecord
                  /\ task[t].ta.time[i] = init_time
                  /\ \A v \in 0..6 :
                        task[t].ta.st[v * BatchSize + i] = ParticleState(v, LaneParticle(t, i))
            /\ task[t].with_events => task[t].ta.cooldowns = "reset"

\* The second batch of the range is about to be propagated by the instance
\* that has run the first one, in a simulation with events and with records
\* left by an earlier superstep.
C35_Witness ==
    /\ 0 \in DOMAIN task
    /\ BeforePropagation(0)
    /\ task[0].idx = 1
    /\ task[0].with_events
    /\ s_data[0].tcoords # <<>>

-----------------------------------------------------------------------------
(* Retries of the updaters of the global AABB.                             *)

\* The workers other than w that have returned from the call that w runs.
ReturnedOthers(w) == {v \in (1..NWorkers) \ {w} : Returned(v, upd[w].call)}

\* C36: the atomic of a call changes only by the successful compare-exchange
\* of a worker in that call; a compare-exchange of a worker fails
\* non-spuriously only when the atomic differs from the value the worker
\* has read, and the failures of a running call are no more than the other
\* workers that have completed their update of the same atomic, hence at most
\* W - 1; with fair scheduling and finitely many spurious failures every
\* worker returns from all its calls.
C36_BoundedRetries ==
    /\ [][\A call \in 0..7 :
             AtomicOf(call)' # AtomicOf(call) =>
                 \E v \in 1..NWorkers :
                     /\ upd[v].pc = "cas" /\ upd[v].call = call
                     /\ upd[v].orig_val = AtomicOf(call)
                     /\ upd'[v].call = call + 1]_vars
    /\ [][\A w \in 1..NWorkers :
             upd'[w].fails > upd[w].fails => AtomicOf(upd[w].call) # upd[w].orig_val]_vars
    /\ [](\A w \in 1..NWorkers :
             /\ upd[w].pc = "cas" => upd[w].fails <= Cardinality(ReturnedOthers(w))
             /\ upd[w].fails <= NWorkers - 1)
    /\ <>(\A w \in 1..NWorkers : upd[w].pc = "done")

\* A worker has failed as often as there are other workers, which have all
\* returned from their update of the atomic.
C36_Witness ==
    \E w \in 1..NWorkers :
        /\ upd[w].pc = "cas"
        /\ upd[w].fails = NWorkers - 1
        /\ ReturnedOthers(w) = (1..NWorkers) \ {w}

-----------------------------------------------------------------------------
(* verify_bvh_trees_parallel on the tree of one chunk.                     *)

\* Morton codes of the particles of the chunks handed to the verification.
VerifyCodes == { <<0, 0, 0, 0>>, <<0, 0, 0, 1>>, <<32768, 0, 0, 0>> }

\* split_idx values of the root of the trees handed to the verification.
VerifySplits == {0, 63, 64}

\* A node over the particles b..e-1 whose box is the box of these particles.
BoxedNode(b, e, parent, left, right, nn, s) ==
    [begin |-> b, end |-> e, parent |-> parent, left |-> left, right |-> right,
     lb |-> LeafLb(default_lb, b, e), ub |-> LeafUb(default_ub, b, e),
     nn_level |-> nn, split_idx |-> s]

\* The trees handed to the verification for a chunk of n particles: a root
\* alone, or a root with two leaves, over ranges inside [0, n).
TreeChoices(n) ==
    {[i \in 0..0 |-> BoxedNode(b, e, -1, -1, -1, 1, s)] :
        b \in 0..1, e \in 1..n, s \in VerifySplits}
    \cup
    {[i \in 0..2 |->
         CASE i = 0 -> BoxedNode(b, e, -1, 1, 2, 1, s)
           [] i = 1 -> BoxedNode(b, m, 0, -1, -1, 2, s + 1)
           [] i = 2 -> BoxedNode(m + gap, e, 0, -1, -1, 2, s + 1)] :
        b \in 0..1, e \in 1..n, m \in 1..n, gap \in 0..1, s \in VerifySplits}

\* The chunk is sorted already (vidx is the identity); the tree is any of
\* TreeChoices; the build is GCC/clang or another compiler.
VerifyInit ==
    /\ nparts \in 1..MaxParts
    /\ srt_mcodes \in {mc \in [0..(nparts - 1) -> VerifyCodes] : IsSortedCodes(mc, nparts)}
    /\ srt_lbs = [p \in 0..(nparts - 1) |-> BoxLbs[(p % Len(BoxLbs)) + 1]]
    /\ srt_ubs = [p \in 0..(nparts - 1) |-> BoxUbs[(p % Len(BoxUbs)) + 1]]
    /\ mcodes = srt_mcodes
    /\ lbs = srt_lbs
    /\ ubs = srt_ubs
    /\ vidx = [p \in 0..(nparts - 1) |-> p]
    /\ tree \in TreeChoices(nparts)
    /\ fn_call \in [fn : {"verify_bvh_trees_parallel"}, gnuc : BOOLEAN, i : {0},
                    pset : {{}}, pc : {"call"}]
    /\ pc = "verify"

\* The assertions on a node with children.
ChildrenAsserts(i, gnuc) ==
    LET cur_node == tree[i]
        uleft == cur_node.left
        uright == cur_node.right
    IN  /\ cur_node.left > 0
        /\ cur_node.right > 0
        /\ uleft > i /\ uleft < Size(tree)
        /\ uright > i /\ uright < Size(tree)
        /\ tree[uleft].begin = cur_node.begin
        /\ tree[uleft].end < cur_node.end
        /\ tree[uright].begin = tree[uleft].end
        /\ tree[uright].end = cur_node.end
        /\ cur_node.split_idx <= 63
        /\ gnuc =>
              LET split_idx == tree[uleft].end - 1
              IN  /\ first_diff_bit(srt_mcodes[split_idx], srt_mcodes[split_idx + 1])
                        = cur_node.split_idx
                  /\ srt_mcodes[split_idx] = mcodes[vidx[split_idx]]

\* The assertions on the parent of node i.
ParentAsserts(i) ==
    LET cur_node == tree[i]
        upar == cur_node.parent
    IN  IF i = 0 THEN cur_node.parent = -1
        ELSE /\ cur_node.parent >= 0
             /\ upar < i
             /\ cur_node.begin >= tree[upar].begin
             /\ cur_node.end <= tree[upar].end
             /\ cur_node.begin = tree[upar].begin \/ cur_node.end = tree[upar].end

\* The assertions on the AABB of node i and on the sorted copies of the
\* boxes of its particles.
BoxAsserts(i) ==
    LET cur_node == tree[i]
    IN  /\ \A j \in cur_node.begin..(cur_node.end - 1) :
              srt_lbs[j] = lbs[vidx[j]] /\ srt_ubs[j] = ubs[vidx[j]]
        /\ LeafLb(default_lb, cur_node.begin, cur_node.end) = cur_node.lb
        /\ LeafUb(default_ub, cur_node.begin, cur_node.end) = cur_node.ub

\* All the assertions of the iteration of node i hold, pset being the
\* particles inserted by the iterations before.
NodeAsserts(i, pset, gnuc) ==
    LET cur_node == tree[i]
    IN  /\ cur_node.end > cur_node.begin
        /\ IF cur_node.left = -1 THEN cur_node.right = -1
           ELSE cur_node.left > 0 /\ cur_node.right > 0
        /\ IF cur_node.end - cur_node.begin = 1
           THEN /\ cur_node.left = -1
                /\ cur_node.right = -1
                /\ cur_node.begin \notin pset
           ELSE cur_node.left = -1 =>
                   /\ cur_node.right = -1
                   /\ \A j \in cur_node.begin..(cur_node.end - 1) :
                         j \notin pset /\ srt_mcodes[j] = srt_mcodes[cur_node.begin]
        /\ IF cur_node.left # -1 THEN ChildrenAsserts(i, gnuc)
           ELSE cur_node.split_idx <= 64
        /\ ParentAsserts(i)
        /\ cur_node.nn_level > 0
        /\ BoxAsserts(i)

\* pset after the iteration of node i: the particles of a node without
\* children are inserted.
PsetInsert(i, pset) ==
    IF tree[i].left = -1 THEN pset \cup (tree[i].begin..(tree[i].end - 1)) ELSE pset

\* One iteration of the loop over the nodes, all its assertions holding.
VerifyNode ==
    /\ pc = "verify"
    /\ fn_call.pc = "call"
    /\ fn_call.i < Size(tree)
    /\ NodeAsserts(fn_call.i, fn_call.pset, fn_call.gnuc)
    /\ fn_call' = [fn_call EXCEPT !.i = fn_call.i + 1,
                                  !.pset = PsetInsert(fn_call.i, fn_call.pset)]
    /\ UNCHANGED <<upd, int_error, b_ta_cache, task, chunk_pc, aabbVars, sortVars, bvhVars>>

\* An assertion of the iteration fails.
VerifyNodeAssertFail ==
    /\ pc = "verify"
    /\ fn_call.pc = "call"
    /\ fn_call.i < Size(tree)
    /\ ~NodeAsserts(fn_call.i, fn_call.pset, fn_call.gnuc)
    /\ fn_call' = [fn_call EXCEPT !.pc = "abort"]
    /\ UNCHANGED <<upd, int_error, b_ta_cache, task, chunk_pc, aabbVars, sortVars, bvhVars>>

\* The loop over the nodes ends and the function returns.
VerifyReturn ==
    /\ pc = "verify"
    /\ fn_call.pc = "call"
    /\ fn_call.i = Size(tree)
    /\ fn_call' = [fn_call EXCEPT !.pc = "ret"]
    /\ UNCHANGED <<upd, int_error, b_ta_cache, task, chunk_pc, aabbVars, sortVars, bvhVars>>

VerifyNext ==
    \/ VerifyNode
    \/ VerifyNodeAssertFail
    \/ VerifyReturn

\* Nothing else runs.
VerifyOthersIdle ==
    /\ upd = <<>>
    /\ int_error = FALSE
    /\ b_ta_cache = <<>>
    /\ task = <<>>
    /\ chunk_pc = <<>>
    /\ s_data = <<>>
    /\ chunk_idx = 0
    /\ lane_idx = 0
    /\ global_lb_atomic = default_lb
    /\ global_ub_atomic = default_ub
    /\ global_lb = default_lb
    /\ global_ub = default_ub
    /\ cast_inf = 0
    /\ nc_buf = <<>>
    /\ ps_buf = <<>>
    /\ nplc_buf = <<>>
    /\ cur_n_nodes = 0
    /\ nn_next_level = 0
    /\ n_leaf_nodes = 0
    /\ n_begin = 0
    /\ n_end = 0
    /\ done = {}

InitVerify == VerifyInit /\ VerifyOthersIdle

NextVerify == VerifyNext

SpecVerify == InitVerify /\ [][NextVerify]_vars

\* The leaves whose range holds particle p.
LeavesOf(p) == {n \in Leaves : p \in Range(n)}

AcceptedTreeNoDuplicates ==
    HasReturned("verify_bvh_trees_parallel") =>
        /\ \A p \in 0..(nparts - 1) : Cardinality(LeavesOf(p)) <= 1
        /\ fn_call.pset = UNION {Range(n) : n \in Leaves}

\* An accepted tree of two leaves that cover every particle.
AcceptedCoveringTree ==
    /\ HasReturned("verify_bvh_trees_parallel")
    /\ Size(tree) = 3
    /\ fn_call.pset = 0..(nparts - 1)

-----------------------------------------------------------------------------
(* The global AABB handed to disc_single_coord.                            *)

\* The calls of disc_single_coord for chunk k are about to be made.
CallsDisc(k) == pc = "sort" /\ chunk_pc[k] = "load"

\* The global bounds of chunk k are finite with max > min in coordinate c.
BoundsOk(k, c) ==
    /\ global_lb_atomic[k][c] \notin {finf, -finf}
    /\ global_ub_atomic[k][c] \notin {finf, -finf}
    /\ global_ub_atomic[k][c] > global_lb_atomic[k][c]

\* C38: when morton_encode_sort calls disc_single_coord for a chunk, the
\* chunk's global bounds are finite with max > min in each of the four
\* coordinates, and the asserted preconditions hold for every particle.
C38_DiscPreconditions ==
    \A k \in 0..(NChunks - 1) :
        CallsDisc(k) =>
            /\ \A c \in 1..4 : BoundsOk(k, c)
            /\ \A q \in 0..(nparts * NChunks - 1) : \A c \in 1..4 :
                  ChunkOf(q) = k =>
                      DiscPrecondition(Centre(q)[c], global_lb_atomic[k][c],
                                       global_ub_atomic[k][c])

\* The same for particle counts that are a multiple of the batch size.
DiscPreconditionsNoRemainder == s_rem = 0 => C38_DiscPreconditions

-----------------------------------------------------------------------------
(* Termination of the level loop.                                          *)

\* The nodes that have a parent.
Children == {n \in DOMAIN tree : tree[n].parent >= 0}

\* The level loop has ended.
LoopEnded == pc \in {"bwd", "done"}

\* C39: the split_idx of a node is greater than the final split_idx of its
\* parent, from the step that creates the node on; hence a node is no
\* deeper than its split_idx, which is at most 64, and the tree has at most
\* 65 levels; the tree never has more than 2 * P - 1 nodes; the level loop
\* ends, with cur_n_nodes = 0.
C39_LevelLoopTerminates ==
    /\ [](\A n \in Children : tree[n].split_idx > tree[tree[n].parent].split_idx)
    /\ [][\A n \in Children : tree'[tree[n].parent].split_idx = tree[tree[n].parent].split_idx]_vars
    /\ [](\A n \in DOMAIN tree :
             Determinate(tree[n]) => Depth(n) <= tree[n].split_idx /\ tree[n].split_idx <= 64)
    /\ [](tree # <<>> => Height + 1 <= 65 /\ Size(tree) <= 2 * nparts - 1)
    /\ [](LoopEnded => cur_n_nodes = 0)
    /\ <>LoopEnded

\* The loop has ended on a tree of 2 * P - 1 nodes, P >= 3, with a leaf that
\* started at split_idx 64, below a parent split at the last bit.
C39_Witness ==
    /\ pc = "done"
    /\ cur_n_nodes = 0
    /\ nparts >= 3
    /\ Size(tree) = 2 * nparts - 1
    /\ \E n \in Children : tree[n].split_idx = 64 /\ tree[tree[n].parent].split_idx = 63

-----------------------------------------------------------------------------
(* The ranges handed to the binary searches of step 1.                     *)

\* The codes of the particles b..e-1 agree on the bits before bit index s.
AgreeBelow(b, e, s) ==
    \A p \in b..(e - 1) : \A j \in 0..(s - 1) :
        Bit(srt_mcodes[p], j) = Bit(srt_mcodes[b], j)

\* Bit s of the codes does not decrease over the particles b..e-1.
BitSorted(b, e, s) ==
    \A p \in b..(e - 2) : Bit(srt_mcodes[p], s) <= Bit(srt_mcodes[p + 1], s)

\* The first particle of b..e-1 whose bit s is 1, e if there is none.
FirstOne(b, e, s) == SetMin({p \in b..(e - 1) : Bit(srt_mcodes[p], s) = 1} \cup {e})

\* C40: the codes of the range of a node that step 1 has not classified yet
\* agree on every bit before the node's split_idx; in the step that
\* classifies a node of more than one particle with split_idx <= 63, the
\* codes agree on every bit before the final split_idx, so that every bit
\* index that is searched, from the split_idx on entry to the final one,
\* has its bit non-decreasing over the range, std::lower_bound returns the
\* first position whose bit is 1, and for a node that is split the codes
\* before that position have the bit 0 and the codes from it on have 1.
C40_SearchedRangePartitioned ==
    /\ [](pc = "step1" =>
             \A n \in Pending : AgreeBelow(tree[n].begin, tree[n].end, tree[n].split_idx))
    /\ [][(pc = "step1" /\ done' # done) =>
             \A node_idx \in done' \ done :
                 LET cur_node == tree[node_idx]
                     b == cur_node.begin
                     e == cur_node.end
                     final == tree'[node_idx].split_idx
                 IN (e - b > 1 /\ cur_node.split_idx <= 63) =>
                       /\ AgreeBelow(b, e, final)
                       /\ \A s \in cur_node.split_idx..final :
                             /\ BitSorted(b, e, s)
                             /\ LowerBound(b, e - b, s) = FirstOne(b, e, s)
                       /\ nc_buf'[node_idx - n_begin] = 2 =>
                             LET split == b + nplc_buf'[node_idx - n_begin]
                             IN /\ split = FirstOne(b, e, final)
                                /\ b < split /\ split < e
                                /\ \A p \in b..(split - 1) : Bit(srt_mcodes[p], final) = 0
                                /\ \A p \in split..(e - 1) : Bit(srt_mcodes[p], final) = 1]_vars

\* A level with two nodes of two particles below the root: one has been
\* split at a bit index after the one it started with, the other is still
\* to be classified and holds different codes.
C40_Witness ==
    /\ pc = "step1"
    /\ \E n \in done : \E k \in Pending :
          /\ tree[n].parent = 0
          /\ nc_buf[n - n_begin] = 2
          /\ tree[n].split_idx > ChildSplitIdx(tree[0].split_idx)
          /\ tree[k].split_idx >= 1
          /\ tree[k].end - tree[k].begin = 2
          /\ srt_mcodes[tree[k].begin] # srt_mcodes[tree[k].begin + 1]

====
